---------------------------- MODULE Spec2Model ----------------------------
(***************************************************************************)
(* A/B/n variant resolver of otl-core/cms-utils                            *)
(* (src/src/abn-resolver.utils.js).                                        *)
(*                                                                         *)
(* JavaScript values are tagged records, objects and arrays live in a heap *)
(* (a sequence of objects, an address is an index), so that "the same      *)
(* object", "a new object" and "mutated in place" are statements about the *)
(* state.  JavaScript numbers are rationals or NaN/Infinity; every         *)
(* arithmetic result goes through Round, which is the identity when        *)
(* arith = "exact" (the real-number reading of the algorithm) and rounds   *)
(* to Precision significant bits, ties to even, when arith = "ieee" (the   *)
(* binary64 rule with a shorter significand).                              *)
(***************************************************************************)
EXTENDS Integers, Sequences, FiniteSets, TLC

VARIABLES
    arith,      \* "exact" | "ieee": how number operations round
    world,      \* what the caller holds: "select" | "page" | "blog" | "sections"
                \* | "category" | "schedule" | "locale" | "lineage"
    variants,   \* world "select": the {id, weight} list handed to selectVariant
    heap,       \* the objects and arrays: heap[a] is the object at address a
    arg,        \* the caller's argument value (content record / sections /
                \* flat category list / schedule metadata /
                \* localized value and options)
    pre,        \* the heap as it was when the last call began
    ret,        \* the last call: function, arguments, outcome
    prev,       \* the call before the last
    calls,      \* number of calls made so far
    walk        \* world "lineage": the parent-chain walk in progress, its
                \* arguments, local variables and position in the loop

vars == <<arith, world, variants, heap, arg, pre, ret, prev, calls, walk>>

---------------------------------------------------------------------------
(* Bounds of the model *)

MaxLen == 3         \* longest variant list handed to selectVariant
MaxWeight == 3      \* largest integer weight
Precision == 3      \* significand bits of the "ieee" arithmetic
MaxCalls == 2       \* calls in a row on one content record or section tree
MaxContentLen == 2  \* longest variant list of a content record
MaxDepth == 1       \* layout blocks nested in layout blocks
MaxCats == 3        \* longest flat category list
MaxDay == 2         \* latest day of a schedule timestamp or of the clock
MaxLocales == 2     \* most keys of a localized object, longest supportedLocales

MaxDen == MaxLen * MaxWeight    \* bucket denominators: every boundary i/W is a bucket

---------------------------------------------------------------------------
(* JavaScript numbers *)

RECURSIVE GCD(_, _)
GCD(a, b) == IF b = 0 THEN a ELSE GCD(b, a % b)

RECURSIVE Pow2(_)
Pow2(e) == IF e = 0 THEN 1 ELSE 2 * Pow2(e - 1)

Abs(n) == IF n < 0 THEN -n ELSE n

\* F(v), with v computed once, before F reads it
Let(v, F(_)) == CHOOSE y \in {F(x) : x \in {v}} : TRUE

Fin(n, d) == [k |-> "fin", n |-> n, d |-> d]
NaNum == [k |-> "nan", n |-> 0, d |-> 1]
Infinity == [k |-> "inf", n |-> 1, d |-> 1]
Zero == Fin(0, 1)

\* a finite number in lowest terms
Reduce(x) ==
    IF x.k # "fin" THEN x
    ELSE LET g == GCD(Abs(x.n), x.d) IN Fin(x.n \div g, x.d \div g)

RoundHalfEven(a, b) ==
    LET q == a \div b
        r == a % b
    IN  IF 2 * r < b THEN q
        ELSE IF 2 * r > b THEN q + 1
        ELSE IF q % 2 = 0 THEN q ELSE q + 1

RECURSIVE UpShift(_, _, _)
UpShift(n, d, s) ==
    IF n * Pow2(s) >= Pow2(Precision - 1) * d THEN s ELSE UpShift(n, d, s + 1)

RECURSIVE DownShift(_, _, _)
DownShift(n, d, s) ==
    IF n < Pow2(Precision) * d * Pow2(s) THEN s ELSE DownShift(n, d, s + 1)

\* nearest number with Precision significant bits, ties to even (x >= 0)
RoundToPrecision(x) ==
    IF x.k # "fin" \/ x.n <= 0 THEN x
    ELSE IF x.n >= Pow2(Precision) * x.d
         THEN LET s == DownShift(x.n, x.d, 1)
              IN  Reduce(Fin(RoundHalfEven(x.n, x.d * Pow2(s)) * Pow2(s), 1))
         ELSE LET s == UpShift(x.n, x.d, 0)
              IN  Reduce(Fin(RoundHalfEven(x.n * Pow2(s), x.d), Pow2(s)))

Round(x) == IF arith = "exact" THEN Reduce(x) ELSE RoundToPrecision(Reduce(x))

NumEq(a, b) == a.k = "fin" /\ b.k = "fin" /\ a.n * b.d = b.n * a.d

\* a < b
NumLess(a, b) ==
    CASE a.k = "nan" \/ b.k = "nan" -> FALSE
      [] a.k = "inf" -> FALSE
      [] b.k = "inf" -> TRUE
      [] OTHER -> a.n * b.d < b.n * a.d

\* a + b
NumAdd(a, b) ==
    CASE a.k = "nan" \/ b.k = "nan" -> NaNum
      [] a.k = "inf" \/ b.k = "inf" -> Infinity
      [] OTHER -> Round(Fin(a.n * b.d + b.n * a.d, a.d * b.d))

\* a / b  (a, b >= 0)
NumDiv(a, b) ==
    CASE a.k = "nan" \/ b.k = "nan" -> NaNum
      [] a.k = "inf" /\ b.k = "inf" -> NaNum
      [] a.k = "inf" -> Infinity
      [] b.k = "inf" -> Zero
      [] b.n = 0 -> IF a.n = 0 THEN NaNum ELSE Infinity
      [] OTHER -> Round(Fin(a.n * b.d, a.d * b.n))

\* a * b
NumMul(a, b) ==
    CASE a.k = "nan" \/ b.k = "nan" -> NaNum
      [] a.k = "inf" \/ b.k = "inf" -> Infinity
      [] OTHER -> Round(Fin(a.n * b.n, a.d * b.d))

\* a number the arithmetic can hold
Representable(x) == x.k # "fin" \/ x.n < 0 \/ Round(x) = Reduce(x)

---------------------------------------------------------------------------
(* JavaScript values *)

Undefined == [t |-> "undefined", n |-> 0, d |-> 1, s |-> ""]
Null == [t |-> "null", n |-> 0, d |-> 1, s |-> ""]
Bool(b) == [t |-> "boolean", n |-> IF b THEN 1 ELSE 0, d |-> 1, s |-> ""]
Num(n) == [t |-> "number", n |-> n, d |-> 1, s |-> ""]
NaN == [t |-> "number", n |-> 0, d |-> 1, s |-> "NaN"]
Str(s) == [t |-> "string", n |-> 0, d |-> 1, s |-> s]
Ref(a) == [t |-> "object", n |-> a, d |-> 1, s |-> ""]

\* a === b
StrictEquals(a, b) == a = b /\ a # NaN

\* the outcome of a call
Return(v) == [thrown |-> FALSE, message |-> "", value |-> v]
Throw(m) == [thrown |-> TRUE, message |-> m, value |-> Undefined]

---------------------------------------------------------------------------
(* selectVariant *)

RECURSIVE SumWeights(_, _)
SumWeights(vs, i) ==
    IF i = 0 THEN Zero
    ELSE Let(SumWeights(vs, i - 1), LAMBDA sum : NumAdd(sum, vs[i].weight))

\* faulty variant of the total: the weights are taken as percentages
totalWeightAsPercent(vs) == Fin(100, 1)

totalWeight(vs) == SumWeights(vs, Len(vs))

\* faulty variants of the accumulation: the share of the one variant alone,
\* and the raw weight taken for an already normalized share
ShareAlone(cumulative, weight, total) == NumDiv(weight, total)
AddRawWeight(cumulative, weight, total) == NumAdd(cumulative, weight)

\* cumulative += weight / totalWeight
Accumulate(cumulative, weight, total) == NumAdd(cumulative, NumDiv(weight, total))

\* faulty variant of the comparison: bucket <= cumulative
BucketNotAbove(bucket, cumulative) ==
    NumLess(bucket, cumulative) \/ NumEq(bucket, cumulative)

\* faulty variant of the comparison: a bound of 0 covers no bucket, not
\* even a negative one
BucketBelowPositive(bucket, cumulative) ==
    NumLess(bucket, cumulative) /\ NumLess(Zero, cumulative)

\* bucket < cumulative
BucketBelow(bucket, cumulative) == NumLess(bucket, cumulative)

\* faulty variant of the fallback: no id at all
NoVariantId(vs) == Undefined

\* variants[variants.length - 1].id
LastVariantId(vs) == vs[Len(vs)].id

RECURSIVE SelectLoop(_, _, _, _, _)
SelectLoop(bucket, vs, total, cumulative, i) ==
    IF i > Len(vs) THEN Return(LastVariantId(vs))
    ELSE Let(Accumulate(cumulative, vs[i].weight, total), LAMBDA c :
             IF BucketBelow(bucket, c) THEN Return(vs[i].id)
             ELSE SelectLoop(bucket, vs, total, c, i + 1))

EmptyListError == Throw("selectVariant: variants array must not be empty")

\* faulty variant of selectVariant: no guard, an empty list yields no id
selectVariantUnguarded(bucket, vs) ==
    IF Len(vs) = 0 THEN Return(Undefined)
    ELSE Let(totalWeight(vs), LAMBDA total : SelectLoop(bucket, vs, total, Zero, 1))

selectVariant(bucket, vs) ==
    IF Len(vs) = 0 THEN EmptyListError
    ELSE Let(totalWeight(vs), LAMBDA total : SelectLoop(bucket, vs, total, Zero, 1))

---------------------------------------------------------------------------
(* Objects and arrays *)

EmptyProps == [key \in {} |-> Undefined]
NewRecord(props) == [isArray |-> FALSE, props |-> props, elems |-> <<>>]
NewArray(elems) == [isArray |-> TRUE, props |-> EmptyProps, elems |-> elems]

IsObject(v) == v.t = "object"
IsArray(h, v) == IsObject(v) /\ h[v.n].isArray
isRecord(h, v) == IsObject(v) /\ ~h[v.n].isArray

\* v[key] for a record v; undefined for a missing key and for a primitive
Get(h, v, key) ==
    IF isRecord(h, v) /\ key \in DOMAIN h[v.n].props THEN h[v.n].props[key]
    ELSE Undefined

Elems(h, v) == h[v.n].elems

\* a new object on the heap: the heap after, and the reference
Alloc(h, obj) == [h |-> Append(h, obj), v |-> Ref(Len(h) + 1)]

\* obj[key] = value
SetProp(h, obj, key, value) ==
    [h EXCEPT ![obj.n].props = (key :> value) @@ @]

\* faulty variant of the spread: the key is assigned on obj itself
AssignInPlace(h, obj, key, value) == [h |-> SetProp(h, obj, key, value), v |-> obj]

\* { ...obj, [key]: value }
SpreadWith(h, obj, key, value) ==
    Alloc(h, NewRecord((key :> value) @@ h[obj.n].props))

\* delete obj[key]
DeleteProp(h, obj, key) ==
    [h EXCEPT ![obj.n].props = [k \in (DOMAIN @) \ {key} |-> @[k]]]

\* !!v
Truthy(v) ==
    CASE v.t = "undefined" -> FALSE
      [] v.t = "null" -> FALSE
      [] v.t = "boolean" -> v.n = 1
      [] v.t = "number" -> v.n # 0 /\ v.s # "NaN"
      [] v.t = "string" -> v.s # ""
      [] OTHER -> TRUE

ParseRange == 0..99

\* Number(v)
ToNumber(v) ==
    CASE v.t = "undefined" -> NaNum
      [] v.t = "null" -> Zero
      [] v.t = "boolean" -> Fin(v.n, 1)
      [] v.t = "number" -> IF v.s = "NaN" THEN NaNum ELSE Fin(v.n, v.d)
      [] v.t = "string" ->
            IF v.s = "" THEN Zero
            ELSE IF \E n \in ParseRange : ToString(n) = v.s
                 THEN Fin(CHOOSE n \in ParseRange : ToString(n) = v.s, 1)
                 ELSE NaNum
      [] OTHER -> NaNum

\* String(v), v a primitive or a record
ToStringJS(v) ==
    CASE v.t = "undefined" -> Str("undefined")
      [] v.t = "null" -> Str("null")
      [] v.t = "boolean" -> Str(IF v.n = 1 THEN "true" ELSE "false")
      [] v.t = "number" -> IF v.s = "NaN" THEN Str("NaN") ELSE Str(ToString(v.n))
      [] v.t = "string" -> v
      [] OTHER -> Str("[object Object]")

\* faulty variant of find: the last hit
LastOf(hits) == IF hits = {} THEN 0 ELSE CHOOSE i \in hits : \A j \in hits : j <= i

FirstOf(hits) == IF hits = {} THEN 0 ELSE CHOOSE i \in hits : \A j \in hits : i <= j

\* faulty variant of the lookup: the last element whose id is id
FindLastById(h, elems, id) ==
    LastOf({i \in 1..Len(elems) : StrictEquals(Get(h, elems[i], "id"), id)})

\* faulty variant of the lookup: ids are compared after String(), so that the
\* number 123 is found under "123"
FindByCoercedId(h, elems, id) ==
    FirstOf({i \in 1..Len(elems) : ToStringJS(Get(h, elems[i], "id")) = id})

\* variants.find(v => v.id === id): the index of the first element whose id
\* is strictly equal to id, 0 when there is none
FindById(h, elems, id) ==
    FirstOf({i \in 1..Len(elems) : StrictEquals(Get(h, elems[i], "id"), id)})

\* faulty variant of the lookup: when no record has the id, the first record
\* stands in, as the first variant does for pages and blog posts
FindRecordOrFirst(h, elems, id) ==
    IF \E i \in 1..Len(elems) :
          isRecord(h, elems[i]) /\ StrictEquals(Get(h, elems[i], "id"), id)
    THEN FirstOf({i \in 1..Len(elems) :
                     isRecord(h, elems[i]) /\ StrictEquals(Get(h, elems[i], "id"), id)})
    ELSE FirstOf({i \in 1..Len(elems) : isRecord(h, elems[i])})

\* variants.find(v => isRecord(v) && v.id === id)
FindRecordById(h, elems, id) ==
    FirstOf({i \in 1..Len(elems) :
                isRecord(h, elems[i]) /\ StrictEquals(Get(h, elems[i], "id"), id)})

---------------------------------------------------------------------------
(* isMultivariateContent, resolvePageVariant, resolveBlogPostVariant *)

\* faulty variant of isMultivariateContent: a truthy flag is enough
isTruthyMultivariate(h, content) ==
    /\ Truthy(Get(h, content, "multivariate"))
    /\ IsArray(h, Get(h, content, "variants"))

isMultivariateContent(h, content) ==
    /\ StrictEquals(Get(h, content, "multivariate"), Bool(TRUE))
    /\ IsArray(h, Get(h, content, "variants"))

\* the {id, weight} view selectVariant reads of an array of variant records
\* whose weights are numbers (or missing)
RawVariants(h, arr) ==
    [i \in 1..Len(Elems(h, arr)) |->
        [id |-> Get(h, Elems(h, arr)[i], "id"),
         weight |-> ToNumber(Get(h, Elems(h, arr)[i], "weight"))]]

\* variants.map(v => ({ id: String(v.id), weight: Number(v.weight) }))
CoercedVariants(h, elems) ==
    [i \in 1..Len(elems) |->
        [id |-> ToStringJS(Get(h, elems[i], "id")),
         weight |-> ToNumber(Get(h, elems[i], "weight"))]]

\* a call's effect: the heap after it and its outcome
Effect(h, out) == [h |-> h, out |-> out]

PageResult(h, sections, variantId) ==
    Let(Alloc(h, NewRecord([sections |-> sections, variantId |-> variantId])),
        LAMBDA r : Effect(r.h, Return(r.v)))

resolvePageVariant(h, content, bucket) ==
    LET elems == Elems(h, Get(h, content, "variants"))
    IN  Let(selectVariant(bucket, RawVariants(h, Get(h, content, "variants"))),
            LAMBDA sel :
        IF sel.thrown THEN Effect(h, sel)
        ELSE Let(FindById(h, elems, sel.value), LAMBDA i :
                 IF i = 0
                 THEN PageResult(h, Get(h, elems[1], "sections"), Get(h, elems[1], "id"))
                 ELSE PageResult(h, Get(h, elems[i], "sections"), sel.value)))

\* faulty variant of the guard: the multivariate flag is not looked at
VariantsIsNoArray(h, content) == ~IsArray(h, Get(h, content, "variants"))

\* faulty variant of the guard: the flag is compared with true, as in
\* isMultivariateContent
BlogIsNoOpStrict(h, content) ==
    \/ ~StrictEquals(Get(h, content, "multivariate"), Bool(TRUE))
    \/ ~IsArray(h, Get(h, content, "variants"))

\* the guard of resolveBlogPostVariant: true when the call returns at once
BlogIsNoOp(h, content) ==
    \/ ~Truthy(Get(h, content, "multivariate"))
    \/ ~IsArray(h, Get(h, content, "variants"))

\* faulty variant of the cleanup: variants is left on the record
DeleteMultivariateOnly(h, content) == DeleteProp(h, content, "multivariate")

\* faulty variant of the cleanup: nothing is deleted, the record stays
\* multivariate
KeepMultivariateFields(h, content) == h

\* the cleanup of resolveBlogPostVariant
DeleteMultivariateFields(h, content) ==
    DeleteProp(DeleteProp(h, content, "multivariate"), content, "variants")

\* faulty variant of the assignment: always the blocks of the first variant
AssignFirstBlocks(h, content, elems, i) ==
    IF Len(elems) > 0 THEN SetProp(h, content, "blocks", Get(h, elems[1], "blocks"))
    ELSE h

\* content.blocks = the blocks of the variant found (elems[i]), or of the
\* first variant when none was found (i = 0)
AssignBlocks(h, content, elems, i) ==
    IF i # 0 THEN SetProp(h, content, "blocks", Get(h, elems[i], "blocks"))
    ELSE IF Len(elems) > 0 THEN SetProp(h, content, "blocks", Get(h, elems[1], "blocks"))
    ELSE h

\* faulty variant of resolveBlogPostVariant: the error of selectVariant is
\* caught, and the record cleaned up all the same
resolveBlogPostVariantCatching(h, content, bucket) ==
    IF BlogIsNoOp(h, content) THEN Effect(h, Return(Undefined))
    ELSE LET elems == Elems(h, Get(h, content, "variants"))
         IN  Let(selectVariant(bucket, CoercedVariants(h, elems)), LAMBDA sel :
             IF sel.thrown
             THEN Effect(DeleteMultivariateFields(h, content), Return(Undefined))
             ELSE Let(AssignBlocks(h, content, elems, FindById(h, elems, sel.value)),
                      LAMBDA h1 :
                      Effect(DeleteMultivariateFields(h1, content), Return(Undefined))))

resolveBlogPostVariant(h, content, bucket) ==
    IF BlogIsNoOp(h, content) THEN Effect(h, Return(Undefined))
    ELSE LET elems == Elems(h, Get(h, content, "variants"))
         IN  Let(selectVariant(bucket, CoercedVariants(h, elems)), LAMBDA sel :
             IF sel.thrown THEN Effect(h, sel)
             ELSE Let(AssignBlocks(h, content, elems, FindById(h, elems, sel.value)),
                      LAMBDA h1 :
                      Effect(DeleteMultivariateFields(h1, content), Return(Undefined))))

---------------------------------------------------------------------------
(* resolveFormVariantsInSections, resolveBlockVariant *)

\* the effect of a map over blocks: the heap after, the mapped values, or
\* the error that ended it
Mapped(h, vs) == [h |-> h, thrown |-> FALSE, message |-> "", vs |-> vs]
MapThrew(h, out) == [h |-> h, thrown |-> TRUE, message |-> out.message, vs |-> <<>>]

\* variants.filter(isRecord)
RecordsOf(h, elems) == SelectSeq(elems, LAMBDA v : isRecord(h, v))

\* faulty variant of the childKey: child takes priority over children
ChildKeyChildFirst(h, config) ==
    IF IsArray(h, Get(h, config, "child")) THEN "child"
    ELSE IF IsArray(h, Get(h, config, "children")) THEN "children"
    ELSE ""

\* the childKey of a layout block's config: "children", "child" or none ("")
ChildKey(h, config) ==
    IF IsArray(h, Get(h, config, "children")) THEN "children"
    ELSE IF IsArray(h, Get(h, config, "child")) THEN "child"
    ELSE ""

\* faulty variant of the resolved block: document is added to the data given
ResolvedFormKeepingData(h, block, data, variant) ==
    Let(SpreadWith(h, data, "document", Get(h, variant, "document")), LAMBDA d :
    Let(SpreadWith(d.h, block, "data", d.v), LAMBDA b :
    Effect(b.h, Return(b.v))))

\* faulty variant of the resolved block: the new data still carries the
\* multivariate flag
ResolvedFormWithFlag(h, block, data, variant) ==
    Let(Alloc(h, NewRecord([definition |-> Get(h, data, "definition"),
                            document |-> Get(h, variant, "document"),
                            multivariate |-> Bool(TRUE)])), LAMBDA d :
    Let(SpreadWith(d.h, block, "data", d.v), LAMBDA b :
    Effect(b.h, Return(b.v))))

\* faulty variant of the resolved block: the new data is still multivariate,
\* with the variants it was resolved from
ResolvedFormKeepingVariants(h, block, data, variant) ==
    Let(Alloc(h, NewRecord([definition |-> Get(h, data, "definition"),
                            document |-> Get(h, variant, "document"),
                            multivariate |-> Bool(TRUE),
                            variants |-> Get(h, data, "variants")])), LAMBDA d :
    Let(SpreadWith(d.h, block, "data", d.v), LAMBDA b :
    Effect(b.h, Return(b.v))))

\* { ...block, data: { definition: data.definition, document: variant.document } }
ResolvedForm(h, block, data, variant) ==
    Let(Alloc(h, NewRecord([definition |-> Get(h, data, "definition"),
                            document |-> Get(h, variant, "document")])), LAMBDA d :
    Let(SpreadWith(d.h, block, "data", d.v), LAMBDA b :
    Effect(b.h, Return(b.v))))

\* faulty variant of the rewritten owner: its config keeps nothing but the
\* resolved children
WithOnlyChildren(h, owner, config, key, resolvedChildren) ==
    Let(Alloc(h, NewArray(resolvedChildren)), LAMBDA a :
    Let(Alloc(a.h, NewRecord(key :> a.v)), LAMBDA c :
    Let(SpreadWith(c.h, owner, "config", c.v), LAMBDA o :
    Effect(o.h, Return(o.v)))))

\* { ...owner, config: { ...config, [key]: resolvedChildren } }
WithChildren(h, owner, config, key, resolvedChildren) ==
    Let(Alloc(h, NewArray(resolvedChildren)), LAMBDA a :
    Let(SpreadWith(a.h, config, key, a.v), LAMBDA c :
    Let(SpreadWith(c.h, owner, "config", c.v), LAMBDA o :
    Effect(o.h, Return(o.v)))))

RECURSIVE resolveBlockVariant(_, _, _)
RECURSIVE ResolveBlocks(_, _, _)

\* blocks.map(block => resolveBlockVariant(block, bucket))
ResolveBlocks(h, blocks, bucket) ==
    IF blocks = <<>> THEN Mapped(h, <<>>)
    ELSE Let(resolveBlockVariant(h, Head(blocks), bucket), LAMBDA first :
         IF first.out.thrown THEN MapThrew(first.h, first.out)
         ELSE Let(ResolveBlocks(first.h, Tail(blocks), bucket), LAMBDA rest :
              IF rest.thrown THEN rest
              ELSE Mapped(rest.h, <<first.out.value>> \o rest.vs)))

ResolveFormBlock(h, block, bucket) ==
    LET data == Get(h, block, "data")
        vs == Get(h, data, "variants")
    IN  IF ~isRecord(h, data) \/ ~StrictEquals(Get(h, data, "multivariate"), Bool(TRUE))
        THEN Effect(h, Return(block))
        ELSE IF ~IsArray(h, vs) \/ Len(Elems(h, vs)) = 0
        THEN Effect(h, Return(block))
        ELSE Let(selectVariant(bucket, CoercedVariants(h, RecordsOf(h, Elems(h, vs)))),
                 LAMBDA sel :
             IF sel.thrown THEN Effect(h, sel)
             ELSE Let(FindRecordById(h, Elems(h, vs), sel.value), LAMBDA i :
                  IF i = 0 THEN Effect(h, Return(block))
                  ELSE ResolvedForm(h, block, data, Elems(h, vs)[i])))

resolveBlockVariant(h, block, bucket) ==
    IF ~isRecord(h, block) THEN Effect(h, Return(block))
    ELSE IF StrictEquals(Get(h, block, "type"), Str("form"))
    THEN ResolveFormBlock(h, block, bucket)
    ELSE LET config == Get(h, block, "config")
         IN  IF ~isRecord(h, config) THEN Effect(h, Return(block))
             ELSE IF ChildKey(h, config) = "" THEN Effect(h, Return(block))
             ELSE Let(ChildKey(h, config), LAMBDA key :
                  Let(ResolveBlocks(h, Elems(h, Get(h, config, key)), bucket), LAMBDA m :
                  IF m.thrown THEN Effect(m.h, Throw(m.message))
                  ELSE WithChildren(m.h, block, config, key, m.vs)))

\* faulty variant of the callback: a section is walked like a layout block,
\* under children or else under child
ResolveSectionAnyKey(h, section, bucket) ==
    LET config == Get(h, section, "config")
    IN  IF ~isRecord(h, section) THEN Effect(h, Return(section))
        ELSE IF ~isRecord(h, config) THEN Effect(h, Return(section))
        ELSE IF ChildKey(h, config) = "" THEN Effect(h, Return(section))
        ELSE Let(ChildKey(h, config), LAMBDA key :
             Let(ResolveBlocks(h, Elems(h, Get(h, config, key)), bucket), LAMBDA m :
             IF m.thrown THEN Effect(m.h, Throw(m.message))
             ELSE WithChildren(m.h, section, config, key, m.vs)))

\* the callback of sections.map
ResolveSection(h, section, bucket) ==
    LET config == Get(h, section, "config")
        children == Get(h, config, "children")
    IN  IF ~isRecord(h, section) THEN Effect(h, Return(section))
        ELSE IF ~isRecord(h, config) THEN Effect(h, Return(section))
        ELSE IF ~IsArray(h, children) THEN Effect(h, Return(section))
        ELSE Let(ResolveBlocks(h, Elems(h, children), bucket), LAMBDA m :
             IF m.thrown THEN Effect(m.h, Throw(m.message))
             ELSE WithChildren(m.h, section, config, "children", m.vs))

RECURSIVE ResolveSections(_, _, _)
ResolveSections(h, sections, bucket) ==
    IF sections = <<>> THEN Mapped(h, <<>>)
    ELSE Let(ResolveSection(h, Head(sections), bucket), LAMBDA first :
         IF first.out.thrown THEN MapThrew(first.h, first.out)
         ELSE Let(ResolveSections(first.h, Tail(sections), bucket), LAMBDA rest :
              IF rest.thrown THEN rest
              ELSE Mapped(rest.h, <<first.out.value>> \o rest.vs)))

resolveFormVariantsInSections(h, sections, bucket) ==
    IF ~IsArray(h, sections) THEN Effect(h, Return(sections))
    ELSE Let(ResolveSections(h, Elems(h, sections), bucket), LAMBDA m :
         IF m.thrown THEN Effect(m.h, Throw(m.message))
         ELSE Let(Alloc(m.h, NewArray(m.vs)), LAMBDA a : Effect(a.h, Return(a.v))))

---------------------------------------------------------------------------
(* buildCategoryTree, flattenCategoryTree (src/src/category.utils.js) *)

\* A category is [id, parent_id, sort_order].  A tree node is the object the
\* Map holds under an id, so a node is named by its id: a tree is the roots
\* (node names in order), the children array of every node, and the fields
\* every node was spread from.

CategoryIndices(categories, id) == {i \in 1..Len(categories) : categories[i].id = id}
CategoryIdSet(categories) == {categories[i].id : i \in 1..Len(categories)}

\* categoryMap after the first pass: set() under an id already there puts
\* the later category's node in place of the earlier
NodeFields(categories) ==
    [id \in CategoryIdSet(categories) |->
        categories[CHOOSE i \in CategoryIndices(categories, id) :
                      \A j \in CategoryIndices(categories, id) : j <= i]]

\* the second pass up to category i: roots and children arrays
RECURSIVE BuildHierarchy(_, _)
BuildHierarchy(categories, i) ==
    IF i = 0
    THEN [roots |-> <<>>, children |-> [id \in CategoryIdSet(categories) |-> <<>>]]
    ELSE Let(BuildHierarchy(categories, i - 1), LAMBDA acc :
         LET category == categories[i]
         IN  IF Truthy(category.parent_id) /\ category.parent_id \in DOMAIN acc.children
             THEN [acc EXCEPT !.children[category.parent_id] = Append(@, category.id)]
             ELSE [acc EXCEPT !.roots = Append(@, category.id)])

\* the sorted nodes with node id put in, after the nodes whose sort_order is
\* not greater
InsertByOrder(fields, nodes, id) ==
    LET at == Cardinality({j \in 1..Len(nodes) :
                              fields[nodes[j]].sort_order <= fields[id].sort_order})
    IN  SubSeq(nodes, 1, at) \o <<id>> \o SubSeq(nodes, at + 1, Len(nodes))

\* nodes.sort((a, b) => a.sort_order - b.sort_order), a stable sort
RECURSIVE SortByOrder(_, _, _)
SortByOrder(fields, nodes, n) ==
    IF n = 0 THEN <<>>
    ELSE Let(SortByOrder(fields, nodes, n - 1), LAMBDA sorted :
             InsertByOrder(fields, sorted, nodes[n]))

buildCategoryTree(categories) ==
    Let(NodeFields(categories), LAMBDA fields :
    Let(BuildHierarchy(categories, Len(categories)), LAMBDA built :
        [roots |-> SortByOrder(fields, built.roots, Len(built.roots)),
         children |-> [id \in DOMAIN built.children |->
                          SortByOrder(fields, built.children[id], Len(built.children[id]))],
         fields |-> fields]))

StackOverflow == Throw("RangeError: Maximum call stack size exceeded")

\* flatten(nodes): the categories pushed, in order.  A nesting deeper than
\* the number of nodes has a node below itself: the recursion does not end,
\* and the call stack runs out.
RECURSIVE Flatten(_, _, _)
Flatten(tree, nodes, depth) ==
    IF nodes = <<>> THEN Return(<<>>)
    ELSE IF depth > Cardinality(DOMAIN tree.fields) THEN StackOverflow
    ELSE Let(Flatten(tree, tree.children[Head(nodes)], depth + 1), LAMBDA below :
         IF below.thrown THEN below
         ELSE Let(Flatten(tree, Tail(nodes), depth), LAMBDA rest :
              IF rest.thrown THEN rest
              ELSE Return(<<tree.fields[Head(nodes)]>> \o below.value \o rest.value)))

flattenCategoryTree(tree) == Flatten(tree, tree.roots, 0)


\* categoryMap.get(id) has a category: some category of the list has the id
InCategoryMap(categories, id) == id \in CategoryIdSet(categories)

\* categoryMap.get(id), for an id the map has
CategoryMapGet(categories, id) == NodeFields(categories)[id]

\* no walk is in progress
Idle ==
    [fn |-> "none", at |-> "done", ancestorId |-> Undefined,
     categoryId |-> Undefined, currentId |-> Undefined, path |-> <<>>]

\* getCategoryPath(categoryId, categories) as it enters its loop: the map is
\* built, path is empty, currentId is categoryId
EnterGetCategoryPath(categoryId) ==
    [fn |-> "getCategoryPath", at |-> "while", ancestorId |-> Undefined,
     categoryId |-> categoryId, currentId |-> categoryId, path |-> <<>>]

\* isAncestor(ancestorId, descendantId, categories) as it enters its loop:
\* the map is built, currentId is descendantId
EnterIsAncestor(ancestorId, descendantId) ==
    [fn |-> "isAncestor", at |-> "while", ancestorId |-> ancestorId,
     categoryId |-> descendantId, currentId |-> descendantId, path |-> <<>>]

\* the elements path can hold: a path longer than the list holds a category
\* twice, so the loop comes back to the same currentId for ever and path
\* grows until the allocation fails
PathLimit(categories) == Len(categories) + 1
OutOfMemory == Throw("FATAL ERROR: JavaScript heap out of memory")

\* path.unshift(category); currentId = category.parent_id
Unshift(w, category) ==
    [w EXCEPT !.at = "while",
              !.path = <<category>> \o @,
              !.currentId = category.parent_id]

\* currentId = category.parent_id
Ascend(w, category) ==
    [w EXCEPT !.at = "while", !.currentId = category.parent_id]

\* findChildren(parentId) and the forEach over its children: the categories
\* pushed, in order.  A recursion deeper than the list is long has come back
\* to a category it is below: it does not end, and the call stack runs out.
RECURSIVE FindChildren(_, _, _)
RECURSIVE ForEachChild(_, _, _)
FindChildren(categories, parentId, depth) ==
    IF depth > Len(categories) THEN StackOverflow
    ELSE ForEachChild(categories,
                      SelectSeq(categories,
                                LAMBDA cat : StrictEquals(cat.parent_id, parentId)),
                      depth)
ForEachChild(categories, children, depth) ==
    IF children = <<>> THEN Return(<<>>)
    ELSE Let(FindChildren(categories, Head(children).id, depth + 1), LAMBDA below :
         IF below.thrown THEN below
         ELSE Let(ForEachChild(categories, Tail(children), depth), LAMBDA rest :
              IF rest.thrown THEN rest
              ELSE Return(<<Head(children)>> \o below.value \o rest.value)))

getDescendants(categoryId, categories) == FindChildren(categories, categoryId, 0)

---------------------------------------------------------------------------
(* schedule resolver: isContentVisible *)

\* a Date object with the time value ms, counted in days from 2025-02-10
DateOf(ms) == [t |-> "date", n |-> ms, d |-> 1, s |-> ""]

\* a Date object whose time value is NaN
InvalidDate == [t |-> "date", n |-> 0, d |-> 1, s |-> "NaN"]

\* date.valueOf()
TimeValue(date) == IF date.s = "NaN" THEN NaNum ELSE Fin(date.n, 1)

\* the days an ISO 8601 timestamp of this model can name
Days == 0..9

\* new Date(ms).toISOString()
Iso(day) == Str("2025-02-1" \o ToString(day) \o "T00:00:00.000Z")

\* new Date(string): the instant the timestamp names, Invalid Date for a
\* string that is no timestamp
ParseDate(v) ==
    IF \E day \in Days : Iso(day) = v
    THEN DateOf(CHOOSE day \in Days : Iso(day) = v)
    ELSE InvalidDate

\* a < b and a >= b on Date objects: both compare the time values, and both
\* are false when one of them is NaN
DateLess(a, b) == NumLess(TimeValue(a), TimeValue(b))
DateAtLeast(a, b) ==
    \/ NumLess(TimeValue(b), TimeValue(a))
    \/ NumEq(TimeValue(a), TimeValue(b))

\* isContentVisible(publishAt, expiresAt, now); clock is what new Date()
\* gives when now is omitted
isContentVisible(publishAt, expiresAt, now, clock) ==
    LET currentTime == IF Truthy(now) THEN now ELSE clock
    IN  IF Truthy(publishAt) /\ DateLess(currentTime, ParseDate(publishAt))
        THEN Bool(FALSE)
        ELSE IF Truthy(expiresAt)
                   /\ DateAtLeast(currentTime, ParseDate(expiresAt))
             THEN Bool(FALSE)
             ELSE Bool(TRUE)

---------------------------------------------------------------------------
(* localization: getLocalizedString *)

\* a localized object: its own properties as {key, value} entries in the
\* order they were inserted
Localized(entries) == [t |-> "localized", entries |-> entries]

\* a list of locales
LocaleList(elems) == [t |-> "array", elems |-> elems]

\* the options record; a field that is not given is undefined
Options(preferredLocale, defaultLocale, supportedLocales) ==
    [t |-> "options", preferredLocale |-> preferredLocale,
     defaultLocale |-> defaultLocale, supportedLocales |-> supportedLocales]

\* options?.preferredLocale, options?.defaultLocale, options?.supportedLocales
OptionalPreferred(options) ==
    IF options.t = "undefined" THEN Undefined ELSE options.preferredLocale
OptionalDefault(options) ==
    IF options.t = "undefined" THEN Undefined ELSE options.defaultLocale
OptionalSupported(options) ==
    IF options.t = "undefined" THEN Undefined ELSE options.supportedLocales

\* locale in value
HasKey(value, locale) ==
    \E i \in 1..Len(value.entries) : value.entries[i].key = locale.s

\* value[locale]
ValueAt(value, locale) ==
    IF HasKey(value, locale)
    THEN value.entries[CHOOSE i \in 1..Len(value.entries) :
                           value.entries[i].key = locale.s].value
    ELSE Undefined

\* locale in value && value[locale]
Usable(value, locale) == HasKey(value, locale) /\ Truthy(ValueAt(value, locale))

\* a key that is an array index: Object.keys lists these first, ascending
IsIndexKey(key) == \E n \in ParseRange : ToString(n) = key
IndexOfKey(key) == CHOOSE n \in ParseRange : ToString(n) = key

\* Object.keys(value): index keys in ascending order, then the other keys
\* in insertion order
ObjectKeys(value) ==
    LET keys == [i \in 1..Len(value.entries) |-> value.entries[i].key]
    IN  SortSeq(SelectSeq(keys, IsIndexKey),
                LAMBDA a, b : IndexOfKey(a) < IndexOfKey(b))
            \o SelectSeq(keys, LAMBDA key : ~IsIndexKey(key))

\* options?.preferredLocale || "en", without the default locale
PreferredOrEn(options) ==
    IF Truthy(OptionalPreferred(options)) THEN OptionalPreferred(options)
    ELSE Str("en")

\* options?.preferredLocale || options?.defaultLocale || "en"
PreferredLocale(options) ==
    IF Truthy(OptionalPreferred(options)) THEN OptionalPreferred(options)
    ELSE IF Truthy(OptionalDefault(options)) THEN OptionalDefault(options)
    ELSE Str("en")

\* for (const locale of supportedLocales) if (locale in value &&
\* value[locale]) return value[locale]: the index of the locale that returns,
\* 0 when the loop ends
RECURSIVE SupportedHit(_, _, _)
SupportedHit(value, locales, i) ==
    IF i > Len(locales) THEN 0
    ELSE IF Usable(value, locales[i]) THEN i
    ELSE SupportedHit(value, locales, i + 1)

\* the last resort: the value of the first key, "" when it is empty or there
\* is no key
FirstAvailable(value) ==
    LET keys == ObjectKeys(value)
    IN  IF Len(keys) > 0 /\ Truthy(ValueAt(value, Str(keys[1])))
        THEN ValueAt(value, Str(keys[1]))
        ELSE Str("")

\* the supported locales, then the last resort
TrySupported(value, options) ==
    LET supported == OptionalSupported(options)
        hit == IF Truthy(supported) THEN SupportedHit(value, supported.elems, 1)
               ELSE 0
    IN  IF hit > 0 THEN ValueAt(value, supported.elems[hit])
        ELSE FirstAvailable(value)

getLocalizedString(value, options) ==
    IF value.t \in {"null", "undefined"} THEN Str("")
    ELSE IF value.t = "string" THEN value
    ELSE IF Usable(value, PreferredLocale(options))
         THEN ValueAt(value, PreferredLocale(options))
    ELSE IF Truthy(OptionalDefault(options))
               /\ Usable(value, OptionalDefault(options))
         THEN ValueAt(value, OptionalDefault(options))
    ELSE IF Usable(value, Str("en")) THEN ValueAt(value, Str("en"))
    ELSE TrySupported(value, options)

---------------------------------------------------------------------------
(* Inputs: JSON terms and their objects on the heap *)

JP(v) == [k |-> "prim", v |-> v]
JR(f) == [k |-> "rec", f |-> f]
JA(e) == [k |-> "arr", e |-> e]

RECURSIVE SetToSeq(_)
SetToSeq(S) ==
    IF S = {} THEN <<>>
    ELSE LET e == CHOOSE x \in S : TRUE IN <<e>> \o SetToSeq(S \ {e})

RECURSIVE Load(_, _)
RECURSIVE LoadAll(_, _)

\* the objects of the terms js, in order: the heap after, and their values
LoadAll(h, js) ==
    IF js = <<>> THEN [h |-> h, vs |-> <<>>]
    ELSE Let(Load(h, Head(js)), LAMBDA first :
         Let(LoadAll(first.h, Tail(js)), LAMBDA rest :
         [h |-> rest.h, vs |-> <<first.v>> \o rest.vs]))

\* the object graph of term j: the heap after, and its value
Load(h, j) ==
    CASE j.k = "prim" -> [h |-> h, v |-> j.v]
      [] j.k = "arr" ->
            Let(LoadAll(h, j.e), LAMBDA r : Alloc(r.h, NewArray(r.vs)))
      [] OTHER ->
            Let(SetToSeq(DOMAIN j.f), LAMBDA keys :
            Let(LoadAll(h, [i \in 1..Len(keys) |-> j.f[keys[i]]]), LAMBDA r :
            Alloc(r.h, NewRecord([key \in DOMAIN j.f |->
                                     r.vs[CHOOSE i \in 1..Len(keys) : keys[i] = key]]))))

\* the JSON term of value v in heap h (deep equality is equality of terms)
RECURSIVE Json(_, _)
Json(h, v) ==
    IF ~IsObject(v) THEN JP(v)
    ELSE IF h[v.n].isArray
    THEN JA([i \in 1..Len(h[v.n].elems) |-> Json(h, h[v.n].elems[i])])
    ELSE JR([key \in DOMAIN h[v.n].props |-> Json(h, h[v.n].props[key])])

PositionalId(i) == Str("v" \o ToString(i))

\* the lists of world "select": ids by position, integer weights 0..MaxWeight
WeightLists == UNION {[1..n -> 0..MaxWeight] : n \in 0..MaxLen}
VariantListOf(ws) ==
    [i \in 1..Len(ws) |-> [id |-> PositionalId(i), weight |-> Fin(ws[i], 1)]]

\* buckets in [0, 1) in lowest terms: every boundary i/W of a list of the
\* model, and the grid of the rounded arithmetic
Fractions(den) ==
    {Fin(p[1], p[2]) : p \in {q \in (0..(den - 1)) \X (1..den) :
                                 q[1] < q[2] /\ GCD(q[1], q[2]) = 1}}
UnitBuckets ==
    Fractions(MaxDen) \cup
    {Reduce(Fin(n, Pow2(Precision + 1))) : n \in 0..(Pow2(Precision + 1) - 1)}
OutsideBuckets == {Fin(-1, 2), Fin(1, 1), Fin(3, 2)}
Buckets == {b \in UnitBuckets \cup OutsideBuckets : Representable(b)}

\* the buckets of the calls on content records and section trees
FewBuckets == {Zero, Fin(1, 2), Fin(3, 4)}

InUnit(b) == b.k = "fin" /\ 0 <= b.n /\ b.n < b.d

\* variant records of a content record: ids may repeat, be numbers or NaN
ContentIds == {Str("a"), Str("b"), Num(123), NaN}
ContentWeights == {1, 2}
ContentVariant(payloadKey, i, id, w) ==
    JR((payloadKey :> JA(<<JR([type |-> JP(Str(payloadKey \o "-" \o ToString(i)))])>>))
       @@ [id |-> JP(id), weight |-> JP(Num(w))])
ContentVariantLists(payloadKey) ==
    UNION {{[i \in 1..n |-> ContentVariant(payloadKey, i, f[i][1], f[i][2])] :
               f \in [1..n -> ContentIds \X ContentWeights]} : n \in 0..MaxContentLen}

\* page content: typed as multivariate, variants an array of variant records
PageContents ==
    {JR([page |-> JR(EmptyProps), seo |-> JR(EmptyProps),
         multivariate |-> JP(Bool(TRUE)), variants |-> JA(vs)]) :
        vs \in ContentVariantLists("sections")}

\* blog post content: any multivariate flag, any variants value
Absent == [k |-> "absent"]
MultivariateFlags ==
    {JP(Bool(TRUE)), JP(Bool(FALSE)), JP(Num(1)), JP(Num(0)), JP(Str("true"))}
OtherVariantsValues == {JP(Null), JR(EmptyProps), JP(Str("[]"))}
BlogContent(flag, vs) ==
    JR([key \in {"layout"} \cup (IF flag = Absent THEN {} ELSE {"multivariate"})
                           \cup (IF vs = Absent THEN {} ELSE {"variants"}) |->
           CASE key = "layout" -> JR([header |-> JP(Str("shared"))])
             [] key = "multivariate" -> flag
             [] OTHER -> vs])
BlogContents ==
    {BlogContent(flag, JA(vs)) :
        flag \in MultivariateFlags, vs \in ContentVariantLists("blocks")}
    \cup {BlogContent(flag, vs) : flag \in MultivariateFlags, vs \in OtherVariantsValues}
    \cup {BlogContent(flag, Absent) : flag \in MultivariateFlags}
    \cup {BlogContent(Absent, JA(vs)) : vs \in ContentVariantLists("blocks")}
    \cup {BlogContent(Absent, vs) : vs \in OtherVariantsValues}
    \cup {BlogContent(Absent, Absent)}

\* form blocks: the variants arrays a form block's data may carry
FormVariant(id, w, doc) ==
    JR([id |-> JP(id), weight |-> JP(w), document |-> JR([v |-> JP(Str(doc))])])
FormVariantLists ==
    {<<>>,
     <<FormVariant(Str("a"), Num(1), "a")>>,
     <<FormVariant(Str("a"), Num(1), "a"), FormVariant(Str("b"), Num(1), "b")>>,
     <<FormVariant(Str("a"), Str("1"), "a"), FormVariant(Str("b"), Num(2), "b")>>,
     <<FormVariant(Num(123), Num(1), "n")>>,
     <<FormVariant(Str("a"), Num(1), "a"), FormVariant(Num(123), Num(1), "n")>>,
     <<JP(Str("not-a-variant"))>>,
     <<JP(Str("not-a-variant")), FormVariant(Str("a"), Num(1), "a")>>}
FormDefinition == JR([id |-> JP(Str("form-1"))])
FormBlock(data) == JR([type |-> JP(Str("form")), data |-> data])
FormBlocks ==
    {FormBlock(JR([definition |-> FormDefinition, multivariate |-> JP(Bool(TRUE)),
                   variants |-> JA(vs)])) : vs \in FormVariantLists}
    \cup {FormBlock(JR([definition |-> FormDefinition, multivariate |-> JP(Str("true")),
                        variants |-> JA(<<FormVariant(Str("a"), Num(1), "a")>>)])),
          FormBlock(JR([definition |-> FormDefinition, multivariate |-> JP(Bool(TRUE)),
                        variants |-> JP(Null)])),
          FormBlock(JR([definition |-> FormDefinition,
                        document |-> JR([existing |-> JP(Bool(TRUE))])])),
          FormBlock(JP(Str("data"))),
          JR([type |-> JP(Str("form"))])}

\* blocks that are neither forms nor layouts, and values that are no blocks
PlainBlocks ==
    {JR([type |-> JP(Str("heading")), data |-> JR([text |-> JP(Str("Hello"))])]),
     JR([type |-> JP(Str("spacer")), config |-> JP(Null)]),
     JR([type |-> JP(Str("spacer")), config |-> JR([other |-> JP(Str("value"))])]),
     JP(Str("not-a-block")), JP(Null)}

\* a multivariate form block that resolves for every bucket
SampleForm ==
    FormBlock(JR([definition |-> FormDefinition, multivariate |-> JP(Bool(TRUE)),
                  variants |-> JA(<<FormVariant(Str("a"), Num(1), "a"),
                                    FormVariant(Str("b"), Num(1), "b")>>)]))

\* layout blocks over the blocks bs: nested under children, under child, under both
Layouts(bs) ==
    {JR([type |-> JP(Str("container-layout")), config |-> JR([children |-> JA(<<b>>)])]) :
        b \in bs}
    \cup {JR([type |-> JP(Str("grid-layout")), config |-> JR([child |-> JA(<<b>>)])]) :
             b \in bs}
    \cup {JR([type |-> JP(Str("flexbox-layout")),
              config |-> JR([children |-> JA(<<b>>), child |-> JA(<<SampleForm>>),
                             gap |-> JP(Num(4))])]) : b \in bs}
    \cup {JR([type |-> JP(Str("grid-layout")),
              config |-> JR([children |-> JP(Str("none")), child |-> JA(<<b, b>>)])]) :
             b \in bs}

RECURSIVE Blocks(_)
Blocks(depth) ==
    IF depth = 0 THEN FormBlocks \cup PlainBlocks
    ELSE Blocks(0) \cup Layouts(Blocks(depth - 1))

Section(config) == JR([type |-> JP(Str("section")), config |-> config])
Sections ==
    {Section(JR([children |-> JA(<<b>>)])) : b \in Blocks(MaxDepth)}
    \cup {Section(JR([children |-> JA(<<b1, b2>>), padding |-> JP(Num(8))])) :
             b1 \in PlainBlocks, b2 \in FormBlocks}
    \cup {Section(JR([children |-> JA(<<>>)])),
          Section(JR([other |-> JP(Str("value"))])),
          Section(JR([child |-> JA(<<SampleForm>>)])),
          Section(JP(Null)),
          JR([type |-> JP(Str("section"))]),
          JP(Str("string")), JP(Num(123)), JP(Null)}

\* the sections argument: an array of sections, or no array at all
SectionsInputs ==
    {JA(<<s>>) : s \in Sections}
    \cup {JA(<<JP(Str("string")), s, Section(JR([children |-> JA(<<SampleForm>>)]))>>) :
             s \in Sections}
    \cup {JA(<<>>), JP(Null), JP(Undefined), JR(EmptyProps)}

\* flat category lists: ids by position, or the id of the first category
\* once more; the parent is none, a category of the list (itself included)
\* or no category of the list; sort_order ascending or descending
CategoryId(i) == Str("cat-" \o ToString(i))
MissingCategoryId == Str("cat-0")
ParentChoices(n) == {Null, MissingCategoryId} \cup {CategoryId(i) : i \in 1..n}
DuplicateChoices(n) == {dup \in [1..n -> BOOLEAN] : n = 0 \/ ~dup[1]}
CategoryList(n, parent, dup, ascending) ==
    [i \in 1..n |->
        [id |-> IF dup[i] /\ i > 1 THEN CategoryId(1) ELSE CategoryId(i),
         parent_id |-> parent[i],
         sort_order |-> IF ascending THEN i ELSE n - i]]


\* flat category lists with ids all different, in sort order: parent_id
\* null, an id of the list (the category's own among them) or an id the
\* list does not have
LineageList(n, parent) == CategoryList(n, parent, [i \in 1..n |-> FALSE], TRUE)

\* the ids a caller asks about: the ids of the list and one it does not have
AskedIds(categories) == CategoryIdSet(categories) \cup {MissingCategoryId}

\* schedule metadata: a timestamp is missing (null, undefined, ""), names a
\* day, or is a string that names no instant
Timestamps ==
    {Null, Undefined, Str(""), Str("not-a-date")} \cup {Iso(day) : day \in 0..MaxDay}
Schedules == [publish_at : Timestamps, expires_at : Timestamps]

\* the third argument: omitted, a Date, or an Invalid Date
NowChoices == {Undefined, InvalidDate} \cup {DateOf(day) : day \in 0..MaxDay}

\* what new Date() can give
Clocks == {DateOf(day) : day \in 0..MaxDay}

\* locales: "7" is a key Object.keys moves to the front
Locales == {"en", "de", "7"}

\* sequences without repetition of at most n elements of S
RECURSIVE Arrangements(_, _)
Arrangements(S, n) ==
    IF n = 0 THEN {<<>>}
    ELSE Arrangements(S, n - 1)
            \cup {Append(seq, x) : seq \in {q \in Arrangements(S, n - 1) :
                                                Len(q) = n - 1},
                                   x \in S}

Distinct(seq) == \A i, j \in 1..Len(seq) : seq[i] = seq[j] => i = j

\* the text of a locale, as in { en: "Hello", de: "Hallo" }
TextIn(locale) == Str("text-" \o locale)

\* localized values: null, undefined, a plain string, or an object whose
\* values are texts or empty strings
LocalizedObjects ==
    UNION {{Localized([i \in 1..Len(keys) |->
                          [key |-> keys[i],
                           value |-> IF i \in filled THEN TextIn(keys[i])
                                     ELSE Str("")]]) :
               filled \in SUBSET (1..Len(keys))} :
           keys \in {seq \in Arrangements(Locales, MaxLocales) : Distinct(seq)}}
LocalizedValues == {Null, Undefined, Str("Hello")} \cup LocalizedObjects

\* options: none, or preferredLocale and defaultLocale each missing, empty
\* or a locale, and supportedLocales missing or a list
LocaleChoices == {Undefined, Str("")} \cup {Str(locale) : locale \in Locales}
SupportedChoices ==
    {Undefined}
        \cup {LocaleList([i \in 1..Len(seq) |-> Str(seq[i])]) :
                 seq \in {q \in Arrangements(Locales, MaxLocales) : Distinct(q)}}
OptionsChoices ==
    {Undefined}
        \cup {Options(preferred, default, supported) :
                 preferred \in LocaleChoices, default \in LocaleChoices,
                 supported \in SupportedChoices}

NoCall == [fn |-> "none", input |-> Undefined, bucket |-> Zero, out |-> Return(Undefined)]
Call(fn, input, bucket, out) == [fn |-> fn, input |-> input, bucket |-> bucket, out |-> out]

---------------------------------------------------------------------------
(* Initial states *)

InitSelect ==
    /\ world = "select"
    /\ arith \in {"exact", "ieee"}
    /\ variants \in {VariantListOf(ws) : ws \in WeightLists}
    /\ heap = <<>>
    /\ arg = Undefined

InitLoaded(w, terms) ==
    /\ world = w
    /\ arith = "ieee"
    /\ variants = <<>>
    /\ \E j \in terms : \E loaded \in {Load(<<>>, j)} : /\ heap = loaded.h
                                                       /\ arg = loaded.v

InitCategory ==
    /\ world = "category"
    /\ arith = "ieee"
    /\ variants = <<>>
    /\ heap = <<>>
    /\ \E n \in 0..MaxCats :
          \E parent \in [1..n -> ParentChoices(n)], dup \in DuplicateChoices(n),
             ascending \in BOOLEAN :
              arg = CategoryList(n, parent, dup, ascending)

InitLineage ==
    /\ world = "lineage"
    /\ arith = "ieee"
    /\ variants = <<>>
    /\ heap = <<>>
    /\ \E n \in 0..MaxCats :
          \E parent \in [1..n -> ParentChoices(n)] : arg = LineageList(n, parent)

InitSchedule ==
    /\ world = "schedule"
    /\ arith = "ieee"
    /\ variants = <<>>
    /\ heap = <<>>
    /\ arg \in Schedules

InitLocale ==
    /\ world = "locale"
    /\ arith = "ieee"
    /\ variants = <<>>
    /\ heap = <<>>
    /\ arg \in [value : LocalizedValues, options : OptionsChoices]

Init ==
    /\ \/ InitSelect
       \/ InitCategory
       \/ InitLocale
       \/ InitLineage
       \/ InitSchedule
       \/ InitLoaded("page", PageContents)
       \/ InitLoaded("blog", BlogContents)
       \/ InitLoaded("sections", SectionsInputs)
    /\ pre = heap
    /\ ret = NoCall
    /\ prev = NoCall
    /\ calls = 0
    /\ walk = Idle

---------------------------------------------------------------------------
(* Calls *)

\* the call Call(fn, input, bucket, e.out) has run and left the heap e.h
Called(fn, input, bucket, e) ==
    /\ ret' = Call(fn, input, bucket, e.out)
    /\ prev' = ret
    /\ pre' = heap
    /\ heap' = e.h
    /\ calls' = calls + 1

\* selectVariant(bucket, variants) on the caller's list
CallSelectVariant ==
    /\ world = "select"
    /\ calls = 0
    /\ \E bucket \in Buckets :
          \E out \in {selectVariant(bucket, variants)} :
              Called("selectVariant", Undefined, bucket, Effect(heap, out))
    /\ UNCHANGED <<arith, world, variants, arg, walk>>

\* isMultivariateContent(content)
CallIsMultivariateContent ==
    /\ world \in {"page", "blog"}
    /\ calls = 0
    /\ Called("isMultivariateContent", arg, Zero,
              Effect(heap, Return(Bool(isMultivariateContent(heap, arg)))))
    /\ UNCHANGED <<arith, world, variants, arg, walk>>

\* resolvePageVariant(content, bucket)
CallResolvePageVariant ==
    /\ world = "page"
    /\ calls = 0
    /\ \E bucket \in FewBuckets :
          \E e \in {resolvePageVariant(heap, arg, bucket)} :
              Called("resolvePageVariant", arg, bucket, e)
    /\ UNCHANGED <<arith, world, variants, arg, walk>>

\* resolveBlogPostVariant(content, bucket), again and again on the same record
CallResolveBlogPostVariant ==
    /\ world = "blog"
    /\ calls < MaxCalls
    /\ \E bucket \in FewBuckets :
          \E e \in {resolveBlogPostVariant(heap, arg, bucket)} :
              Called("resolveBlogPostVariant", arg, bucket, e)
    /\ UNCHANGED <<arith, world, variants, arg, walk>>

\* resolveFormVariantsInSections(sections, bucket), then again on its result
CallResolveFormVariantsInSections ==
    /\ world = "sections"
    /\ calls < MaxCalls
    /\ ~ret.out.thrown
    /\ \E bucket \in FewBuckets :
          \E e \in {resolveFormVariantsInSections(heap, arg, bucket)} :
              /\ Called("resolveFormVariantsInSections", arg, bucket, e)
              /\ arg' = IF e.out.thrown THEN arg ELSE e.out.value
    /\ UNCHANGED <<arith, world, variants, walk>>

\* buildCategoryTree(categories)
CallBuildCategoryTree ==
    /\ world = "category"
    /\ calls = 0
    /\ \E tree \in {buildCategoryTree(arg)} :
          Called("buildCategoryTree", arg, Zero, Effect(heap, Return(tree)))
    /\ UNCHANGED <<arith, world, variants, arg, walk>>

\* flattenCategoryTree(tree), on the tree buildCategoryTree returned
CallFlattenCategoryTree ==
    /\ world = "category"
    /\ ret.fn = "buildCategoryTree"
    /\ \E out \in {flattenCategoryTree(ret.out.value)} :
          Called("flattenCategoryTree", ret.out.value, Zero, Effect(heap, out))
    /\ UNCHANGED <<arith, world, variants, arg, walk>>

\* isContentVisible(publishAt, expiresAt, now), now given or omitted
CallIsContentVisible ==
    /\ world = "schedule"
    /\ calls = 0
    /\ \E now \in NowChoices, clock \in Clocks :
          \E visible \in {isContentVisible(arg.publish_at, arg.expires_at,
                                           now, clock)} :
              Called("isContentVisible", [now |-> now, clock |-> clock], Zero,
                     Effect(heap, Return(visible)))
    /\ UNCHANGED <<arith, world, variants, arg, walk>>

\* getLocalizedString(value, options)
CallGetLocalizedString ==
    /\ world = "locale"
    /\ calls = 0
    /\ \E text \in {getLocalizedString(arg.value, arg.options)} :
          Called("getLocalizedString", Undefined, Zero,
                 Effect(heap, Return(text)))
    /\ UNCHANGED <<arith, world, variants, arg, walk>>

\* getCategoryPath(categoryId, categories) is called and builds its map
CallGetCategoryPath ==
    /\ world = "lineage"
    /\ calls = 0
    /\ walk = Idle
    /\ \E categoryId \in AskedIds(arg) : walk' = EnterGetCategoryPath(categoryId)
    /\ UNCHANGED <<arith, world, variants, heap, arg, pre, ret, prev, calls>>

\* getCategoryPath at `while (currentId)`: into the body, or return path
GetCategoryPathWhile ==
    /\ walk.fn = "getCategoryPath"
    /\ walk.at = "while"
    /\ IF Truthy(walk.currentId)
       THEN /\ walk' = [walk EXCEPT !.at = "body"]
            /\ UNCHANGED <<heap, pre, ret, prev, calls>>
       ELSE /\ walk' = Idle
            /\ Called("getCategoryPath", [categoryId |-> walk.categoryId], Zero,
                      Effect(heap, Return(walk.path)))
    /\ UNCHANGED <<arith, world, variants, arg>>

\* getCategoryPath in the loop body: break and return path, or unshift the
\* category and go on with its parent_id
GetCategoryPathBody ==
    /\ walk.fn = "getCategoryPath"
    /\ walk.at = "body"
    /\ IF ~InCategoryMap(arg, walk.currentId)
       THEN /\ walk' = Idle
            /\ Called("getCategoryPath", [categoryId |-> walk.categoryId], Zero,
                      Effect(heap, Return(walk.path)))
       ELSE IF Len(walk.path) >= PathLimit(arg)
       THEN /\ walk' = Idle
            /\ Called("getCategoryPath", [categoryId |-> walk.categoryId], Zero,
                      Effect(heap, OutOfMemory))
       ELSE /\ walk' = Unshift(walk, CategoryMapGet(arg, walk.currentId))
            /\ UNCHANGED <<heap, pre, ret, prev, calls>>
    /\ UNCHANGED <<arith, world, variants, arg>>

\* isAncestor(ancestorId, descendantId, categories) is called and builds its
\* map
CallIsAncestor ==
    /\ world = "lineage"
    /\ calls = 0
    /\ walk = Idle
    /\ \E ancestorId \in AskedIds(arg), descendantId \in AskedIds(arg) :
          walk' = EnterIsAncestor(ancestorId, descendantId)
    /\ UNCHANGED <<arith, world, variants, heap, arg, pre, ret, prev, calls>>

\* isAncestor at `while (currentId)`: into the body, or return false
IsAncestorWhile ==
    /\ walk.fn = "isAncestor"
    /\ walk.at = "while"
    /\ IF Truthy(walk.currentId)
       THEN /\ walk' = [walk EXCEPT !.at = "body"]
            /\ UNCHANGED <<heap, pre, ret, prev, calls>>
       ELSE /\ walk' = Idle
            /\ Called("isAncestor",
                      [ancestorId |-> walk.ancestorId, descendantId |-> walk.categoryId],
                      Zero, Effect(heap, Return(Bool(FALSE))))
    /\ UNCHANGED <<arith, world, variants, arg>>

\* isAncestor in the loop body: break and return false, return true at a
\* category whose parent_id is ancestorId, or go on with the parent_id
IsAncestorBody ==
    /\ walk.fn = "isAncestor"
    /\ walk.at = "body"
    /\ IF ~InCategoryMap(arg, walk.currentId)
       THEN /\ walk' = Idle
            /\ Called("isAncestor",
                      [ancestorId |-> walk.ancestorId, descendantId |-> walk.categoryId],
                      Zero, Effect(heap, Return(Bool(FALSE))))
       ELSE IF StrictEquals(CategoryMapGet(arg, walk.currentId).parent_id,
                            walk.ancestorId)
       THEN /\ walk' = Idle
            /\ Called("isAncestor",
                      [ancestorId |-> walk.ancestorId, descendantId |-> walk.categoryId],
                      Zero, Effect(heap, Return(Bool(TRUE))))
       ELSE /\ walk' = Ascend(walk, CategoryMapGet(arg, walk.currentId))
            /\ UNCHANGED <<heap, pre, ret, prev, calls>>
    /\ UNCHANGED <<arith, world, variants, arg>>

\* getDescendants(categoryId, categories)
CallGetDescendants ==
    /\ world = "lineage"
    /\ calls = 0
    /\ walk = Idle
    /\ \E categoryId \in AskedIds(arg) :
          \E out \in {getDescendants(categoryId, arg)} :
              Called("getDescendants", [categoryId |-> categoryId], Zero,
                     Effect(heap, out))
    /\ UNCHANGED <<arith, world, variants, arg, walk>>

Next ==
    \/ CallBuildCategoryTree
    \/ CallGetLocalizedString
    \/ CallIsContentVisible
    \/ CallFlattenCategoryTree
    \/ CallSelectVariant
    \/ CallIsMultivariateContent
    \/ CallResolvePageVariant
    \/ CallResolveBlogPostVariant
    \/ CallResolveFormVariantsInSections
    \/ CallGetCategoryPath
    \/ GetCategoryPathWhile
    \/ GetCategoryPathBody
    \/ CallIsAncestor
    \/ IsAncestorWhile
    \/ IsAncestorBody
    \/ CallGetDescendants

Spec == Init /\ [][Next]_vars

\* a call that is running keeps running: the loop of a walk in progress takes
\* its next step
Running == GetCategoryPathWhile \/ GetCategoryPathBody \/ IsAncestorWhile \/ IsAncestorBody
FairSpec == Spec /\ WF_vars(Running)

---------------------------------------------------------------------------
(* Properties of selectVariant *)

\* the last call was selectVariant(ret.bucket, variants)
Selected == world = "select" /\ ret.fn = "selectVariant"

\* w_1 + ... + w_i of a list with integer weights, as an integer
RECURSIVE PrefixWeight(_, _)
PrefixWeight(vs, i) == IF i = 0 THEN 0 ELSE PrefixWeight(vs, i - 1) + vs[i].weight.n

\* b * W < w_1 + ... + w_i, in integers
Covers(b, vs, i) == b.n * PrefixWeight(vs, Len(vs)) < PrefixWeight(vs, i) * b.d

\* b * W = w_1 + ... + w_i: the bucket is on the upper boundary of variant i
OnBoundary(b, vs, i) == b.n * PrefixWeight(vs, Len(vs)) = PrefixWeight(vs, i) * b.d

\* C1: for every bucket, selectVariant on the empty list throws the error
\* "selectVariant: variants array must not be empty" and returns no id.
C1_EmptyListThrows ==
    (Selected /\ variants = <<>>) =>
        /\ ret.out.thrown
        /\ ret.out.message = "selectVariant: variants array must not be empty"
        /\ ret.out.value = Undefined

C1_Witness ==
    /\ Selected /\ variants = <<>> /\ ret.out.thrown
    /\ ~InUnit(ret.bucket)

\* C2: with exact arithmetic, weights >= 0 of positive total W and a bucket b
\* in [0,1), selectVariant returns the id of the first variant i in list
\* order with b*W < w_1+...+w_i; a bucket on a boundary goes to the next one.
C2_FirstCoveringVariant ==
    (/\ Selected /\ arith = "exact" /\ variants # <<>>
     /\ PrefixWeight(variants, Len(variants)) > 0
     /\ InUnit(ret.bucket)) =>
        /\ \E i \in 1..Len(variants) : Covers(ret.bucket, variants, i)
        /\ \A i \in 1..Len(variants) :
              (/\ Covers(ret.bucket, variants, i)
               /\ \A j \in 1..(i - 1) : ~Covers(ret.bucket, variants, j)) =>
                  ret.out = Return(variants[i].id)

C2_Witness ==
    /\ Selected /\ arith = "exact" /\ Len(variants) >= 2
    /\ InUnit(ret.bucket)
    /\ variants[1].weight.n > 0
    /\ OnBoundary(ret.bucket, variants, 1)
    /\ ret.out = Return(variants[2].id)

\* some bucket of [0,1) makes selectVariant return the id of variant i
Reachable(vs, i) ==
    \E b \in Buckets : InUnit(b) /\ selectVariant(b, vs) = Return(vs[i].id)

\* the last call was selectVariant(0, variants): the one state per list at
\* which what holds of the list for all buckets is evaluated
SelectedAtZero == Selected /\ ret.bucket = Zero

\* C3 as stated: for every non-empty list with weights >= 0, every variant is
\* returned for some bucket of [0,1).
C3_EveryVariantReachable ==
    SelectedAtZero => \A i \in 1..Len(variants) : Reachable(variants, i)

\* C3, amended: with exact arithmetic, every variant of positive weight is
\* returned for some bucket of [0,1); a variant of weight 0 is returned for
\* none, unless it is the last of a list whose weights are all 0.
C3_PositiveWeightReachable ==
    (SelectedAtZero /\ arith = "exact") =>
        \A i \in 1..Len(variants) :
            Reachable(variants, i) <=>
                \/ variants[i].weight.n > 0
                \/ i = Len(variants) /\ PrefixWeight(variants, Len(variants)) = 0

\* bucket 0 skips a first variant of weight 0 and selects the second
C3_Witness ==
    /\ SelectedAtZero /\ arith = "exact" /\ Len(variants) = 3
    /\ variants[1].weight.n = 0 /\ variants[2].weight.n > 0 /\ variants[3].weight.n > 0
    /\ ret.out = Return(variants[2].id)

\* the list with every weight multiplied by k, as the caller computes it
ScaleWeights(k, vs) ==
    [i \in 1..Len(vs) |-> [id |-> vs[i].id, weight |-> NumMul(k, vs[i].weight)]]

\* the scaling constants: halving, doubling, tripling, and 3/10 (as the
\* arithmetic holds it)
Scales == {Round(k) : k \in {Fin(1, 2), Fin(2, 1), Fin(3, 1), Fin(3, 10)}}

ScalingKeepsSelection ==
    \A k \in Scales : selectVariant(ret.bucket, ScaleWeights(k, variants)) = ret.out

\* C4 as stated: for every non-empty list, every constant k > 0 and every
\* bucket of [0,1), the list with all weights multiplied by k selects the
\* same id.
C4_ScalingInvariance ==
    (Selected /\ variants # <<>> /\ InUnit(ret.bucket)) => ScalingKeepsSelection

\* C4, amended: the same with exact arithmetic, where neither the scaled
\* weights nor the normalized shares are rounded.
C4_ExactScalingInvariance ==
    (Selected /\ arith = "exact" /\ variants # <<>> /\ InUnit(ret.bucket)) =>
        ScalingKeepsSelection

C4_Witness ==
    /\ Selected /\ arith = "exact" /\ Len(variants) = 3
    /\ InUnit(ret.bucket)
    /\ PrefixWeight(variants, 3) \notin {1, 2, 3, 10}
    /\ variants[1].weight.n > 0 /\ variants[2].weight.n > 0
    /\ OnBoundary(ret.bucket, variants, 1)
    /\ ret.out = Return(variants[2].id)

\* C5: a one-element list returns its element's id for every bucket of
\* [0,1) and every weight >= 0, weight 0 included.
C5_SingleVariant ==
    (Selected /\ Len(variants) = 1 /\ InUnit(ret.bucket)) =>
        ret.out = Return(variants[1].id)

C5_Witness ==
    /\ Selected /\ Len(variants) = 1 /\ variants[1].weight.n = 0
    /\ arith = "ieee"
    /\ InUnit(ret.bucket) /\ ret.bucket.n > 0
    /\ ret.out = Return(variants[1].id)

---------------------------------------------------------------------------
(* Properties of the content resolvers *)

\* the fields of the record the last call was given, as they were before it
InputProps == pre[ret.input.n].props
Field(key) == IF key \in DOMAIN InputProps THEN InputProps[key] ELSE Undefined

\* value v was an array before the last call
WasArray(v) == v.t = "object" /\ pre[v.n].isArray

\* C7: isMultivariateContent(content) is true exactly when content.multivariate
\* is the boolean true and content.variants is an array (empty or not); a
\* missing or merely truthy flag, and variants missing, null, an object or a
\* string, give false.
C7_StrictFlagAndArray ==
    ret.fn = "isMultivariateContent" =>
        /\ ~ret.out.thrown
        /\ ret.out.value \in {Bool(TRUE), Bool(FALSE)}
        /\ ret.out.value = Bool(TRUE) <=>
              /\ Field("multivariate") = Bool(TRUE)
              /\ WasArray(Field("variants"))

C7_Witness ==
    /\ ret.fn = "isMultivariateContent"
    /\ Field("multivariate") = Num(1)
    /\ WasArray(Field("variants"))
    /\ ret.out = Return(Bool(FALSE))

\* the variant records of the content record given to the last call
InputVariants == pre[Field("variants").n].elems
VariantField(i, key) ==
    IF key \in DOMAIN pre[InputVariants[i].n].props
    THEN pre[InputVariants[i].n].props[key] ELSE Undefined

\* the indices of the variants whose id is strictly equal to id
Matches(id) == {i \in 1..Len(InputVariants) : VariantField(i, "id") = id /\ id # NaN}

\* C8: for content with a non-empty variants list, resolvePageVariant returns
\* variantId = selectVariant(bucket, content.variants) and the sections of the
\* first variant in list order whose id strictly equals it; when no id
\* matches, it returns the sections and the id of the first variant.
C8_PageVariant ==
    (ret.fn = "resolvePageVariant" /\ Len(InputVariants) > 0) =>
        LET selected == selectVariant(ret.bucket, RawVariants(pre, Field("variants")))
            result == heap[ret.out.value.n].props
        IN  /\ ~ret.out.thrown /\ ~selected.thrown
            /\ ret.out.value.t = "object"
            /\ DOMAIN result = {"sections", "variantId"}
            /\ IF Matches(selected.value) = {}
               THEN /\ result.variantId = VariantField(1, "id")
                    /\ result.sections = VariantField(1, "sections")
               ELSE /\ result.variantId = selected.value
                    /\ \E i \in Matches(selected.value) :
                          /\ \A j \in Matches(selected.value) : i <= j
                          /\ result.sections = VariantField(i, "sections")

\* two variants share the selected id, and the first one's sections come back
C8_Witness ==
    /\ ret.fn = "resolvePageVariant" /\ Len(InputVariants) = 2
    /\ ~ret.out.thrown
    /\ ret.bucket = Fin(3, 4)
    /\ Matches(heap[ret.out.value.n].props.variantId) = {1, 2}
    /\ heap[ret.out.value.n].props.sections = VariantField(1, "sections")
    /\ VariantField(1, "sections") # VariantField(2, "sections")

\* every object that existed before the last call is as it was
InputUntouched ==
    /\ Len(heap) >= Len(pre)
    /\ \A a \in 1..Len(pre) : heap[a] = pre[a]

\* value after is the very value before, or an object made by the last call
SameOrNew(after, before) == after = before \/ (after.t = "object" /\ after.n > Len(pre))

\* the elements of the array under key of the config of record owner in heap h
\* (none when there is no such array)
ChildrenUnder(h, owner, key) ==
    LET config == Get(h, owner, "config")
    IN  IF IsArray(h, Get(h, config, key)) THEN Elems(h, Get(h, config, key)) ELSE <<>>

\* section or block after is the one given or a new object, and so are,
\* position by position, the blocks nested in it
RECURSIVE RewrittenAreNew(_, _)
RewrittenAreNew(after, before) ==
    /\ SameOrNew(after, before)
    /\ \A key \in {"children", "child"} :
          LET as == ChildrenUnder(heap, after, key)
              bs == ChildrenUnder(pre, before, key)
          IN  /\ Len(as) = Len(bs)
              /\ \A i \in 1..Len(as) : RewrittenAreNew(as[i], bs[i])

\* C9: resolvePageVariant and resolveFormVariantsInSections never mutate their
\* input: every object that existed before the call (content, sections,
\* blocks, configs, data, variants) is equal to what it was, and every
\* rewritten section or block of the result is a new object.
C9_InputNotMutated ==
    (ret.fn \in {"resolvePageVariant", "resolveFormVariantsInSections"}) =>
        /\ InputUntouched
        /\ (ret.fn = "resolvePageVariant" /\ ~ret.out.thrown) => ret.out.value.n > Len(pre)
        /\ (ret.fn = "resolveFormVariantsInSections" /\ ~ret.out.thrown
                /\ WasArray(ret.input)) =>
              LET after == Elems(heap, ret.out.value)
                  before == Elems(pre, ret.input)
              IN  /\ ret.out.value.n > Len(pre)
                  /\ Len(after) = Len(before)
                  /\ \A i \in 1..Len(after) : RewrittenAreNew(after[i], before[i])

\* a form block nested in a section was resolved: the result differs from
\* the input, which is as it was
C9_Witness ==
    /\ ret.fn = "resolveFormVariantsInSections" /\ ~ret.out.thrown
    /\ WasArray(ret.input)
    /\ Json(heap, ret.out.value) # Json(pre, ret.input)
    /\ Json(heap, ret.input) = Json(pre, ret.input)
    /\ \E i \in 1..Len(Elems(heap, ret.out.value)) :
          /\ Elems(heap, ret.out.value)[i] # Elems(pre, ret.input)[i]
          /\ \E j \in 1..Len(ChildrenUnder(heap, Elems(heap, ret.out.value)[i], "children")) :
                ChildrenUnder(heap, Elems(heap, ret.out.value)[i], "children")[j].n > Len(pre)

\* C10: resolveBlogPostVariant does nothing (no blocks assigned, multivariate
\* and variants kept) whenever content.multivariate is falsy or
\* content.variants is not an array, missing and null included.
C10_BlogNoOp ==
    (/\ ret.fn = "resolveBlogPostVariant"
     /\ ~Truthy(Field("multivariate")) \/ ~WasArray(Field("variants"))) =>
        /\ heap = pre
        /\ ret.out = Return(Undefined)

C10_Witness ==
    /\ ret.fn = "resolveBlogPostVariant"
    /\ Field("multivariate") = Bool(TRUE)
    /\ Field("variants") = Null
    /\ heap = pre
    /\ calls = 1

\* the last call was resolveBlogPostVariant on a record it does not leave alone
BlogActive ==
    /\ ret.fn = "resolveBlogPostVariant"
    /\ Truthy(Field("multivariate"))
    /\ WasArray(Field("variants"))

\* the fields of the content record after the last call
OutputProps == heap[ret.input.n].props

\* every object but the content record is as it was
OthersUntouched ==
    /\ Len(heap) = Len(pre)
    /\ \A a \in 1..Len(pre) : a # ret.input.n => heap[a] = pre[a]

\* C11: on the active path with a non-empty variants array of string ids,
\* content.blocks is afterwards the blocks of the (first) variant whose id is
\* selectVariant(bucket, coerced variants), the keys multivariate and variants
\* are gone, and every other field of content is unchanged.
C11_BlogActivePath ==
    (/\ BlogActive
     /\ Len(InputVariants) > 0
     /\ \A i \in 1..Len(InputVariants) : VariantField(i, "id").t = "string") =>
        LET selected == selectVariant(ret.bucket, CoercedVariants(pre, InputVariants))
        IN  /\ ret.out = Return(Undefined)
            /\ ~selected.thrown
            /\ Matches(selected.value) # {}
            /\ DOMAIN OutputProps =
                  (DOMAIN InputProps \ {"multivariate", "variants"}) \cup {"blocks"}
            /\ \E i \in Matches(selected.value) :
                  /\ \A j \in Matches(selected.value) : i <= j
                  /\ OutputProps["blocks"] = VariantField(i, "blocks")
            /\ \A key \in DOMAIN InputProps \ {"multivariate", "variants", "blocks"} :
                  OutputProps[key] = InputProps[key]
            /\ OthersUntouched

\* the second of two variants was selected, and its blocks were assigned
C11_Witness ==
    /\ BlogActive /\ Len(InputVariants) = 2
    /\ VariantField(1, "id") = Str("a") /\ VariantField(2, "id") = Str("b")
    /\ ~ret.out.thrown
    /\ OutputProps["blocks"] = VariantField(2, "blocks")
    /\ OutputProps["blocks"] # VariantField(1, "blocks")
    /\ "layout" \in DOMAIN OutputProps
    /\ DOMAIN OutputProps \cap {"multivariate", "variants"} = {}

\* C12 as stated: after every call of resolveBlogPostVariant that returns
\* normally, for any content record and any bucket, the record carries
\* neither a multivariate key nor a variants key.
C12_NoMultivariateKeysEver ==
    (ret.fn = "resolveBlogPostVariant" /\ ~ret.out.thrown) =>
        DOMAIN OutputProps \cap {"multivariate", "variants"} = {}

\* C12, amended: after a call that returns normally, the record carries
\* neither key when multivariate was truthy and variants an array (whatever
\* the ids: match or fallback); otherwise it carries exactly the keys it had.
C12_NoKeysAfterActiveCall ==
    (ret.fn = "resolveBlogPostVariant" /\ ~ret.out.thrown) =>
        IF BlogActive
        THEN DOMAIN OutputProps \cap {"multivariate", "variants"} = {}
        ELSE DOMAIN OutputProps = DOMAIN InputProps

\* the fallback path (no id matches the coerced "123") also cleans up
C12_Witness ==
    /\ BlogActive /\ ~ret.out.thrown
    /\ Len(InputVariants) = 2
    /\ VariantField(1, "id") = Num(123) /\ VariantField(2, "id") = Num(123)
    /\ Field("multivariate") = Str("true")
    /\ DOMAIN OutputProps = {"layout", "blocks"}

\* C13: with multivariate true and variants an empty array,
\* resolveBlogPostVariant throws the empty-list error of selectVariant, and
\* nothing was mutated: content has its multivariate and variants fields and
\* no blocks field was assigned.
C13_EmptyVariantsPropagates ==
    (BlogActive /\ Len(InputVariants) = 0) =>
        /\ ret.out.thrown
        /\ ret.out.message = "selectVariant: variants array must not be empty"
        /\ heap = pre
        /\ {"multivariate", "variants"} \subseteq DOMAIN OutputProps
        /\ "blocks" \notin DOMAIN OutputProps

C13_Witness ==
    /\ BlogActive /\ Len(InputVariants) = 0
    /\ Field("multivariate") = Bool(TRUE)
    /\ ret.bucket = Fin(1, 2)
    /\ ret.out.thrown
    /\ OutputProps = InputProps

---------------------------------------------------------------------------
(* Properties of resolveFormVariantsInSections *)

\* the last call was resolveFormVariantsInSections on an array, and returned
SectionsResolved ==
    /\ ret.fn = "resolveFormVariantsInSections"
    /\ WasArray(ret.input)
    /\ ~ret.out.thrown

\* the sections given to the last call, and the sections it returned
SectionsBefore == Elems(pre, ret.input)
SectionsAfter == Elems(heap, ret.out.value)

\* a section the walk does not enter: no record, no record config, or no
\* array config.children
NotEntered(section) ==
    \/ ~isRecord(pre, section)
    \/ ~isRecord(pre, Get(pre, section, "config"))
    \/ ~IsArray(pre, Get(pre, Get(pre, section, "config"), "children"))

\* C14: resolveFormVariantsInSections returns a non-array input as the very
\* same value; of an array input it returns, as the same element, every
\* section that is no record, has no record config or no array
\* config.children, config.child or not.
C14_PassThrough ==
    /\ (ret.fn = "resolveFormVariantsInSections" /\ ~WasArray(ret.input)) =>
          /\ ret.out = Return(ret.input)
          /\ heap = pre
    /\ SectionsResolved =>
          /\ Len(SectionsAfter) = Len(SectionsBefore)
          /\ \A i \in 1..Len(SectionsBefore) :
                NotEntered(SectionsBefore[i]) => SectionsAfter[i] = SectionsBefore[i]

\* a section with forms under config.child came back as it was, next to a
\* section that was rewritten
C14_Witness ==
    /\ SectionsResolved /\ Len(SectionsBefore) = 3
    /\ IsArray(pre, Get(pre, Get(pre, SectionsBefore[2], "config"), "child"))
    /\ NotEntered(SectionsBefore[2])
    /\ SectionsAfter[2] = SectionsBefore[2]
    /\ SectionsAfter[3] # SectionsBefore[3]

\* the variant records of form block `block` as given
FormVariantsOf(block) == Elems(pre, Get(pre, Get(pre, block, "data"), "variants"))

\* block was given as a form with data.multivariate === true and a
\* non-empty data.variants array of records with string ids
Resolvable(block) ==
    /\ isRecord(pre, block)
    /\ Get(pre, block, "type") = Str("form")
    /\ isRecord(pre, Get(pre, block, "data"))
    /\ Get(pre, Get(pre, block, "data"), "multivariate") = Bool(TRUE)
    /\ IsArray(pre, Get(pre, Get(pre, block, "data"), "variants"))
    /\ Len(FormVariantsOf(block)) > 0
    /\ \A i \in 1..Len(FormVariantsOf(block)) :
          /\ isRecord(pre, FormVariantsOf(block)[i])
          /\ Get(pre, FormVariantsOf(block)[i], "id").t = "string"

\* the first variant of block whose id is the id selectVariant returns for
\* the coerced variants of block and the bucket of the last call
SelectedFormVariant(block) ==
    LET vs == FormVariantsOf(block)
        selected == selectVariant(ret.bucket, CoercedVariants(pre, vs))
        hits == {i \in 1..Len(vs) : Get(pre, vs[i], "id") = selected.value}
    IN  vs[CHOOSE i \in hits : \A j \in hits : i <= j]

\* after is before with data replaced by exactly {definition, document}
ResolvedAs(after, before) ==
    /\ isRecord(heap, after)
    /\ DOMAIN heap[after.n].props = DOMAIN pre[before.n].props
    /\ \A key \in DOMAIN pre[before.n].props \ {"data"} :
          heap[after.n].props[key] = pre[before.n].props[key]
    /\ isRecord(heap, Get(heap, after, "data"))
    /\ heap[Get(heap, after, "data").n].props =
          [definition |-> Get(pre, Get(pre, before, "data"), "definition"),
           document |-> Get(pre, SelectedFormVariant(before), "document")]

\* the key under which the walk enters a block that is no form
EnteredKey(block) ==
    IF IsArray(pre, Get(pre, Get(pre, block, "config"), "children")) THEN "children"
    ELSE "child"

\* every resolvable form at block `before` or nested in it, along the walk,
\* is resolved at the same place of `after`
RECURSIVE FormsResolved(_, _)
FormsResolved(after, before) ==
    IF ~isRecord(pre, before) THEN TRUE
    ELSE IF Get(pre, before, "type") = Str("form")
    THEN Resolvable(before) => ResolvedAs(after, before)
    ELSE LET as == ChildrenUnder(heap, after, EnteredKey(before))
             bs == ChildrenUnder(pre, before, EnteredKey(before))
         IN  /\ Len(as) = Len(bs)
             /\ \A i \in 1..Len(bs) : FormsResolved(as[i], bs[i])

\* C15: a block with type "form", data.multivariate === true and a non-empty
\* data.variants array of records with string ids is replaced, at any depth
\* of the walk (children of a section; children, or else child, of a block
\* that is no form), by a block whose data is exactly {definition:
\* data.definition, document: the document of the variant whose id is
\* selectVariant(bucket, coerced variants)} and whose other fields are those
\* of the block given.
C15_FormResolved ==
    SectionsResolved =>
        \A i \in 1..Len(SectionsBefore) :
            ~NotEntered(SectionsBefore[i]) =>
                LET as == ChildrenUnder(heap, SectionsAfter[i], "children")
                    bs == ChildrenUnder(pre, SectionsBefore[i], "children")
                IN  /\ Len(as) = Len(bs)
                    /\ \A j \in 1..Len(bs) : FormsResolved(as[j], bs[j])

\* a form nested under the child key of a layout block got the document of
\* its second variant
C15_Witness ==
    /\ SectionsResolved /\ Len(SectionsBefore) = 1
    /\ ret.bucket = Fin(3, 4)
    /\ LET layout == ChildrenUnder(pre, SectionsBefore[1], "children")[1]
           form == ChildrenUnder(pre, layout, "child")[1]
           after == ChildrenUnder(heap, ChildrenUnder(heap, SectionsAfter[1],
                                                      "children")[1], "child")[1]
       IN  /\ ~NotEntered(SectionsBefore[1])
           /\ ChildrenUnder(pre, SectionsBefore[1], "children") # <<>>
           /\ EnteredKey(layout) = "child"
           /\ ChildrenUnder(pre, layout, "child") # <<>>
           /\ Resolvable(form)
           /\ Len(FormVariantsOf(form)) = 2
           /\ SelectedFormVariant(form) = FormVariantsOf(form)[2]
           /\ ResolvedAs(after, form)
           /\ after # form

\* term b is a record with type "form"
IsFormTerm(b) == b.k = "rec" /\ "type" \in DOMAIN b.f /\ b.f["type"] = JP(Str("form"))

\* term a is term b but for the data of form blocks: arrays keep their length
\* and order, records keep exactly their keys, a form keeps every field
\* but data
RECURSIVE SameButFormData(_, _)
SameButFormData(a, b) ==
    \/ a = b
    \/ /\ a.k = "arr" /\ b.k = "arr"
       /\ Len(a.e) = Len(b.e)
       /\ \A i \in 1..Len(b.e) : SameButFormData(a.e[i], b.e[i])
    \/ /\ a.k = "rec" /\ b.k = "rec"
       /\ DOMAIN a.f = DOMAIN b.f
       /\ IF IsFormTerm(b)
          THEN \A key \in DOMAIN b.f \ {"data"} : a.f[key] = b.f[key]
          ELSE \A key \in DOMAIN b.f : SameButFormData(a.f[key], b.f[key])

\* C16: for every array input, the result of resolveFormVariantsInSections
\* has the same sections in the same order, every section, config and block
\* that is no form keeps exactly its keys, every children/child array its
\* length and order; only data payloads of form blocks differ from the input.
C16_TreeShapePreserved ==
    SectionsResolved =>
        SameButFormData(Json(heap, ret.out.value), Json(pre, ret.input))

\* a section whose config has more keys than children was rewritten: a form
\* in it got its document, the other keys of the config are still there
C16_Witness ==
    /\ SectionsResolved /\ Len(SectionsBefore) = 1
    /\ Json(heap, ret.out.value) # Json(pre, ret.input)
    /\ SectionsAfter[1] # SectionsBefore[1]
    /\ "padding" \in DOMAIN pre[Get(pre, SectionsBefore[1], "config").n].props
    /\ DOMAIN heap[Get(heap, SectionsAfter[1], "config").n].props = {"children", "padding"}
    /\ Len(ChildrenUnder(heap, SectionsAfter[1], "children")) = 2

\* C17: resolveFormVariantsInSections returns normally for every sections
\* value and every bucket, whatever the elements of a block's data.variants
\* array; the empty-list error of selectVariant is reachable only through an
\* empty variants list given to selectVariant, resolvePageVariant or
\* resolveBlogPostVariant.
C17_SectionsNeverThrow ==
    ret.fn = "resolveFormVariantsInSections" => ~ret.out.thrown

\* where it does not hold: a multivariate form whose non-empty variants array
\* holds no record; variants.filter(isRecord) is then empty
C17_ThrowsOnNonRecordVariants ==
    /\ ret.fn = "resolveFormVariantsInSections"
    /\ ret.out.thrown
    /\ ret.out.message = "selectVariant: variants array must not be empty"
    /\ heap = pre

---------------------------------------------------------------------------
(* Properties of the category tree *)

\* the last two calls were flattenCategoryTree(buildCategoryTree(arg))
RoundTripped ==
    /\ world = "category"
    /\ ret.fn = "flattenCategoryTree"
    /\ prev.fn = "buildCategoryTree"

\* C18: for every flat category list, flattenCategoryTree(buildCategoryTree(
\* categories)) has the length of the list and holds each id of the list
\* exactly once: no category is lost or duplicated.
C18_RoundTrip ==
    RoundTripped =>
        /\ ~ret.out.thrown
        /\ Len(ret.out.value) = Len(arg)
        /\ \A id \in CategoryIdSet(arg) :
              Cardinality(CategoryIndices(ret.out.value, id)) = 1

\* where it does not hold: a category that is its own parent is no root and
\* hangs under itself only, so the flattened tree is empty
C18_CategoryLost ==
    /\ RoundTripped
    /\ Len(arg) = 1 /\ arg[1].parent_id = arg[1].id
    /\ ret.out = Return(<<>>)

---------------------------------------------------------------------------
(* Properties of the schedule resolver *)

\* the last call was isContentVisible(arg.publish_at, arg.expires_at, now)
VisibilityChecked == world = "schedule" /\ ret.fn = "isContentVisible"

\* the time the call took as the current time
CurrentTime ==
    IF ret.input.now = Undefined THEN ret.input.clock ELSE ret.input.now

\* no timestamp is given
IsAbsent(stamp) == stamp \in {Null, Undefined, Str("")}

\* now >= stamp and now < stamp, as instants: the current time is an
\* instant, the timestamp names one, and they compare so
AtOrAfter(now, stamp) ==
    \E day \in Days : stamp = Iso(day) /\ now.s # "NaN" /\ now.n >= day
Before(now, stamp) ==
    \E day \in Days : stamp = Iso(day) /\ now.s # "NaN" /\ now.n < day

\* C19: isContentVisible(publishAt, expiresAt, now) is true exactly when
\* (publishAt is absent or now >= publishAt) and (expiresAt is absent or
\* now < expiresAt).
C19_VisibleExactly ==
    VisibilityChecked =>
        (ret.out.value = Bool(TRUE) <=>
            /\ IsAbsent(arg.publish_at) \/ AtOrAfter(CurrentTime, arg.publish_at)
            /\ IsAbsent(arg.expires_at) \/ Before(CurrentTime, arg.expires_at))

\* where it does not hold: a publish_at that names no instant is given, the
\* current time is not at or after it, and the content is visible
C19_VisibleUnpublished ==
    /\ VisibilityChecked
    /\ arg.publish_at = Str("not-a-date") /\ arg.expires_at = Null
    /\ ret.input.now = DateOf(0)
    /\ ret.out = Return(Bool(TRUE))

---------------------------------------------------------------------------
(* Properties of getLocalizedString *)

\* the last call was getLocalizedString(arg.value, arg.options)
Localizing == world = "locale" /\ ret.fn = "getLocalizedString"

\* a locale is given: the option is there and names one
Given(locale) == locale.t = "string" /\ locale.s # ""

\* the options of the call, a missing record read as all fields missing
GivenOptions ==
    IF arg.options = Undefined THEN Options(Undefined, Undefined, Undefined)
    ELSE arg.options

\* the locales of the fallback chain, in the order they are tried
FallbackChain ==
    LET preferred == GivenOptions.preferredLocale
        default == GivenOptions.defaultLocale
        supported == GivenOptions.supportedLocales
        keys == ObjectKeys(arg.value)
    IN  << IF Given(preferred) THEN preferred.s
           ELSE IF Given(default) THEN default.s
           ELSE "en" >>
            \o (IF Given(default) THEN <<default.s>> ELSE <<>>)
            \o <<"en">>
            \o (IF supported = Undefined THEN <<>>
                ELSE [i \in 1..Len(supported.elems) |-> supported.elems[i].s])
            \o (IF keys = <<>> THEN <<>> ELSE <<keys[1]>>)

\* the text the object holds for a locale, "" when it holds none
TextOf(locale) ==
    LET at == {i \in 1..Len(arg.value.entries) :
                  arg.value.entries[i].key = locale}
    IN  IF at = {} THEN Str("") ELSE arg.value.entries[CHOOSE i \in at : TRUE].value

\* the first non-empty text along the chain, "" when there is none
FirstNonEmpty(chain) ==
    LET hits == {i \in 1..Len(chain) : TextOf(chain[i]) # Str("")}
    IN  IF hits = {} THEN Str("") ELSE TextOf(chain[FirstOf(hits)])

\* C20: getLocalizedString returns "" for null and undefined, a plain
\* string unchanged, and for a localized object the first non-empty value
\* among the preferred locale (or, when none is given, the default locale,
\* or "en"), the default locale, "en", the supportedLocales in list order
\* and the object's first key, "" when none of them has a value.
C20_FallbackChain ==
    Localizing =>
        ret.out = Return(CASE arg.value.t \in {"null", "undefined"} -> Str("")
                           [] arg.value.t = "string" -> arg.value
                           [] OTHER -> FirstNonEmpty(FallbackChain))

\* the case happens: preferred, default and "en" give nothing, the first
\* supported locale gives nothing either, and the text of the second one is
\* returned although another key is the object's first
C20_Witness ==
    /\ Localizing
    /\ arg.value.t = "localized"
    /\ arg.options # Undefined
    /\ arg.options.supportedLocales # Undefined
    /\ Len(arg.options.supportedLocales.elems) = 2
    /\ ret.out = Return(TextIn(arg.options.supportedLocales.elems[2].s))
    /\ ObjectKeys(arg.value)[1] # arg.options.supportedLocales.elems[2].s
    /\ FirstAvailable(arg.value) = Str("")

\* no variant of the content record has a string as its id
NoStringIds == \A i \in 1..Len(InputVariants) : VariantField(i, "id").t # "string"

\* C21: when the ids of the variants are not strings (the number 123, NaN),
\* the string-coerced selected id strictly equals no variant's id, and for
\* every bucket resolveBlogPostVariant sets content.blocks to the blocks of
\* the first variant and still deletes multivariate and variants.
C21_NonStringIdsFallBack ==
    (BlogActive /\ Len(InputVariants) > 0 /\ NoStringIds) =>
        LET selected == selectVariant(ret.bucket, CoercedVariants(pre, InputVariants))
        IN  /\ ret.out = Return(Undefined)
            /\ ~selected.thrown
            /\ selected.value.t = "string"
            /\ Matches(selected.value) = {}
            /\ DOMAIN OutputProps =
                  (DOMAIN InputProps \ {"multivariate", "variants"}) \cup {"blocks"}
            /\ OutputProps["blocks"] = VariantField(1, "blocks")

\* the bucket selects the second variant ("NaN"), and the blocks of the first
\* (123) are assigned
C21_Witness ==
    /\ BlogActive /\ Len(InputVariants) = 2 /\ NoStringIds
    /\ VariantField(1, "id") = Num(123) /\ VariantField(2, "id") = NaN
    /\ selectVariant(ret.bucket, CoercedVariants(pre, InputVariants)) = Return(Str("NaN"))
    /\ OutputProps["blocks"] = VariantField(1, "blocks")
    /\ OutputProps["blocks"] # VariantField(2, "blocks")
    /\ DOMAIN OutputProps = {"layout", "blocks"}

\* the last call of resolveBlogPostVariant went past its guard: it threw, or
\* it changed the record (the keys it deletes were there)
ActivePathTaken ==
    /\ ret.fn = "resolveBlogPostVariant"
    /\ ret.out.thrown \/ heap # pre

\* C22 as stated: resolveBlogPostVariant takes its active path if and only
\* if isMultivariateContent(content) is true, for every content record.
C22_GuardEquivalent ==
    ret.fn = "resolveBlogPostVariant" =>
        (ActivePathTaken <=> isMultivariateContent(pre, ret.input))

\* C22, amended: the active path is taken exactly when content.multivariate
\* is truthy and content.variants is an array; this is isMultivariateContent
\* (content) when the flag is a boolean or missing, and whenever
\* isMultivariateContent(content) is true the active path is taken.  A flag
\* that is truthy without being true (1, "true") takes the active path
\* although isMultivariateContent(content) is false.
C22_GuardEquivalentOnBooleans ==
    ret.fn = "resolveBlogPostVariant" =>
        /\ ActivePathTaken <=>
              (Truthy(Field("multivariate")) /\ WasArray(Field("variants")))
        /\ isMultivariateContent(pre, ret.input) => ActivePathTaken
        /\ Field("multivariate").t \in {"boolean", "undefined"} =>
              (ActivePathTaken <=> isMultivariateContent(pre, ret.input))

\* the flag is the number 1: resolved, although not multivariate content
C22_Witness ==
    /\ ActivePathTaken
    /\ Field("multivariate") = Num(1)
    /\ Len(InputVariants) = 1
    /\ ~isMultivariateContent(pre, ret.input)
    /\ DOMAIN OutputProps = {"layout", "blocks"}

\* the id selected for form block `block` is an id of none of its variants:
\* selectVariant returns for the coerced variant records, and no variant
\* record's own id strictly equals what it returns
NoVariantMatches(block) ==
    LET vs == FormVariantsOf(block)
        selected == selectVariant(ret.bucket, CoercedVariants(pre, RecordsOf(pre, vs)))
    IN  /\ ~selected.thrown
        /\ \A i \in 1..Len(vs) :
              isRecord(pre, vs[i]) => ~StrictEquals(Get(pre, vs[i], "id"), selected.value)

\* form block `block` is one the walk leaves alone
StaysAsGiven(block) ==
    LET data == Get(pre, block, "data")
    IN  \/ ~isRecord(pre, data)
        \/ Get(pre, data, "multivariate") # Bool(TRUE)
        \/ ~IsArray(pre, Get(pre, data, "variants"))
        \/ Len(FormVariantsOf(block)) = 0
        \/ NoVariantMatches(block)

\* every form at block `before` or nested in it, along the walk, that is
\* left alone is at the same place of `after` the very same object
RECURSIVE FormsKept(_, _)
FormsKept(after, before) ==
    IF ~isRecord(pre, before) THEN TRUE
    ELSE IF Get(pre, before, "type") = Str("form")
    THEN StaysAsGiven(before) => (after = before /\ heap[before.n] = pre[before.n])
    ELSE LET as == ChildrenUnder(heap, after, EnteredKey(before))
             bs == ChildrenUnder(pre, before, EnteredKey(before))
         IN  /\ Len(as) = Len(bs)
             /\ \A i \in 1..Len(bs) : FormsKept(as[i], bs[i])

\* C23: a form block is returned as the same block, with no fallback to its
\* first variant, whenever its data is no record, data.multivariate is not
\* strictly true, data.variants is no array or is empty, or no variant's own
\* id strictly equals the string-coerced selected id (numeric ids).
C23_FormUnchanged ==
    SectionsResolved =>
        \A i \in 1..Len(SectionsBefore) :
            ~NotEntered(SectionsBefore[i]) =>
                LET as == ChildrenUnder(heap, SectionsAfter[i], "children")
                    bs == ChildrenUnder(pre, SectionsBefore[i], "children")
                IN  /\ Len(as) = Len(bs)
                    /\ \A j \in 1..Len(bs) : FormsKept(as[j], bs[j])

\* a form whose only variant has the id 123 came back as it was, in a
\* section that was rewritten
C23_Witness ==
    /\ SectionsResolved /\ Len(SectionsBefore) = 1
    /\ ~NotEntered(SectionsBefore[1])
    /\ ChildrenUnder(pre, SectionsBefore[1], "children") # <<>>
    /\ LET form == ChildrenUnder(pre, SectionsBefore[1], "children")[1]
       IN  /\ isRecord(pre, form)
           /\ Get(pre, form, "type") = Str("form")
           /\ isRecord(pre, Get(pre, form, "data"))
           /\ Get(pre, Get(pre, form, "data"), "multivariate") = Bool(TRUE)
           /\ IsArray(pre, Get(pre, Get(pre, form, "data"), "variants"))
           /\ Len(FormVariantsOf(form)) = 1
           /\ Get(pre, FormVariantsOf(form)[1], "id") = Num(123)
           /\ NoVariantMatches(form)
           /\ ChildrenUnder(heap, SectionsAfter[1], "children")[1] = form
    /\ SectionsAfter[1] # SectionsBefore[1]

\* block has nothing the walk enters: its config is no record, or neither
\* config.children nor config.child is an array
NothingNested(block) ==
    LET config == Get(pre, block, "config")
    IN  \/ ~isRecord(pre, config)
        \/ /\ ~IsArray(pre, Get(pre, config, "children"))
           /\ ~IsArray(pre, Get(pre, config, "child"))

\* `after` is what the walk makes of block `before` when it is no form: the
\* same block when nothing is nested; otherwise a block with the fields of
\* `before`, but for a config with the fields of its config, but for the
\* entered key, which holds the resolved blocks of the list under that key
RECURSIVE LayoutWalked(_, _)
LayoutWalked(after, before) ==
    IF ~isRecord(pre, before) \/ Get(pre, before, "type") = Str("form") THEN TRUE
    ELSE IF NothingNested(before) THEN after = before /\ heap[before.n] = pre[before.n]
    ELSE LET key == EnteredKey(before)
             config == Get(pre, before, "config")
             configAfter == Get(heap, after, "config")
             as == ChildrenUnder(heap, after, key)
             bs == ChildrenUnder(pre, before, key)
         IN  /\ isRecord(heap, after)
             /\ DOMAIN heap[after.n].props = DOMAIN pre[before.n].props
             /\ \A k \in DOMAIN pre[before.n].props \ {"config"} :
                   heap[after.n].props[k] = pre[before.n].props[k]
             /\ isRecord(heap, configAfter)
             /\ DOMAIN heap[configAfter.n].props = DOMAIN pre[config.n].props
             /\ \A k \in DOMAIN pre[config.n].props \ {key} :
                   heap[configAfter.n].props[k] = pre[config.n].props[k]
             /\ IsArray(heap, Get(heap, configAfter, key))
             /\ Len(as) = Len(bs)
             /\ \A i \in 1..Len(bs) :
                   /\ LayoutWalked(as[i], bs[i])
                   /\ \E r \in {resolveBlockVariant(pre, bs[i], ret.bucket)} :
                         Json(heap, as[i]) = Json(r.h, r.out.value)
             /\ heap[before.n] = pre[before.n]
             /\ heap[config.n] = pre[config.n]

\* C24: for a block that is no form and whose config is a record, the nested
\* blocks are those of config.children when it is an array, otherwise those
\* of config.child when it is an array; that one key is replaced by the list
\* of the resolved blocks, every other key of the block and of its config
\* (the other of the two keys included) is kept; a block with neither array,
\* or whose config is no record, is returned as it is.
C24_LayoutChildKey ==
    SectionsResolved =>
        \A i \in 1..Len(SectionsBefore) :
            ~NotEntered(SectionsBefore[i]) =>
                LET as == ChildrenUnder(heap, SectionsAfter[i], "children")
                    bs == ChildrenUnder(pre, SectionsBefore[i], "children")
                IN  /\ Len(as) = Len(bs)
                    /\ \A j \in 1..Len(bs) : LayoutWalked(as[j], bs[j])

\* a layout with both keys: the form under children is resolved, the list
\* under child is the list given, its form still multivariate
C24_Witness ==
    /\ SectionsResolved /\ Len(SectionsBefore) = 1
    /\ ~NotEntered(SectionsBefore[1])
    /\ ChildrenUnder(pre, SectionsBefore[1], "children") # <<>>
    /\ LET layout == ChildrenUnder(pre, SectionsBefore[1], "children")[1]
           after == ChildrenUnder(heap, SectionsAfter[1], "children")[1]
       IN  /\ isRecord(pre, layout)
           /\ Get(pre, layout, "type") = Str("flexbox-layout")
           /\ IsArray(pre, Get(pre, Get(pre, layout, "config"), "children"))
           /\ IsArray(pre, Get(pre, Get(pre, layout, "config"), "child"))
           /\ Resolvable(ChildrenUnder(pre, layout, "children")[1])
           /\ ResolvedAs(ChildrenUnder(heap, after, "children")[1],
                         ChildrenUnder(pre, layout, "children")[1])
           /\ Get(heap, Get(heap, after, "config"), "child")
                 = Get(pre, Get(pre, layout, "config"), "child")
           /\ Get(heap, Get(heap, after, "config"), "gap") = Num(4)
           /\ Get(heap, Get(heap, ChildrenUnder(heap, after, "child")[1], "data"),
                  "multivariate") = Bool(TRUE)

\* term t is a form block whose data.multivariate is true
IsMultivariateFormTerm(t) ==
    /\ IsFormTerm(t)
    /\ "data" \in DOMAIN t.f
    /\ t.f["data"].k = "rec"
    /\ "multivariate" \in DOMAIN t.f["data"].f
    /\ t.f["data"].f["multivariate"] = JP(Bool(TRUE))

\* a multivariate form is at term t, or below it through config.children or
\* config.child
RECURSIVE MultivariateFormIn(_)
MultivariateFormIn(t) ==
    /\ t.k = "rec"
    /\ \/ IsMultivariateFormTerm(t)
       \/ /\ "config" \in DOMAIN t.f
          /\ t.f["config"].k = "rec"
          /\ \E key \in {"children", "child"} \cap DOMAIN t.f["config"].f :
                /\ t.f["config"].f[key].k = "arr"
                /\ \E i \in 1..Len(t.f["config"].f[key].e) :
                      MultivariateFormIn(t.f["config"].f[key].e[i])

RECURSIVE OnlyKeptFormsMultivariate(_, _)
OnlyKeptFormsMultivariate(after, before) ==
    IF ~isRecord(pre, before) THEN after = before
    ELSE IF Get(pre, before, "type") = Str("form")
    THEN IsMultivariateFormTerm(Json(heap, after)) <=>
            (IsMultivariateFormTerm(Json(pre, before)) /\ StaysAsGiven(before))
    ELSE IF NothingNested(before) THEN after = before
    ELSE LET key == EnteredKey(before)
             as == ChildrenUnder(heap, after, key)
             bs == ChildrenUnder(pre, before, key)
         IN  /\ Len(as) = Len(bs)
             /\ \A i \in 1..Len(bs) : OnlyKeptFormsMultivariate(as[i], bs[i])
             /\ \A other \in {"children", "child"} \ {key} :
                   Get(heap, Get(heap, after, "config"), other)
                      = Get(pre, Get(pre, before, "config"), other)

---------------------------------------------------------------------------
(* selectVariant outside [0, 1) *)

\* the last call was selectVariant on a non-empty list
SelectedOfSome == Selected /\ variants # <<>>

\* the variants whose cumulative weight w_1 + ... + w_i is positive
PositiveBounds == {i \in 1..Len(variants) : PrefixWeight(variants, i) > 0}

\* the result is the id of a variant of the list
IdOfTheList ==
    /\ ~ret.out.thrown
    /\ \E i \in 1..Len(variants) : ret.out.value = variants[i].id

\* a bucket at or above 1 yields the id of the last variant
AboveYieldsLast ==
    ret.bucket.n >= ret.bucket.d => ret.out = Return(variants[Len(variants)].id)

C27_ZeroWeightNeverSelected ==
    (/\ Selected /\ arith = "exact" /\ variants # <<>>
     /\ PrefixWeight(variants, Len(variants)) > 0
     /\ InUnit(ret.bucket)) =>
        /\ ~ret.out.thrown
        /\ \A i \in 1..Len(variants) :
              ret.out.value = variants[i].id => variants[i].weight.n > 0

\* weights 0, w > 0, 0 and a bucket above 1/2: neither the first nor the
\* last variant is selected
C27_Witness ==
    /\ Selected /\ arith = "exact" /\ Len(variants) = 3
    /\ variants[1].weight.n = 0 /\ variants[2].weight.n > 0 /\ variants[3].weight.n = 0
    /\ InUnit(ret.bucket) /\ ret.bucket.n * 2 > ret.bucket.d
    /\ ret.out = Return(variants[2].id)

---------------------------------------------------------------------------
(* Repeated passes of resolveFormVariantsInSections *)

\* the last two calls were resolveFormVariantsInSections(
\* resolveFormVariantsInSections(sections, prev.bucket), ret.bucket) on an
\* array of sections, and both returned
TwoPasses ==
    /\ SectionsResolved
    /\ prev.fn = "resolveFormVariantsInSections"
    /\ ~prev.out.thrown
    /\ ret.input = prev.out.value
    /\ IsArray(heap, prev.input)

\* the second pass returned a tree equal to the one it was given
SecondPassChangedNothing == Json(heap, ret.out.value) = Json(heap, ret.input)

\* C28 as stated: for every sections value on which it returns and all
\* buckets b, b', resolveFormVariantsInSections(resolveFormVariantsInSections(
\* sections, b), b') equals resolveFormVariantsInSections(sections, b).
C28_IdempotentAndSticky == TwoPasses => SecondPassChangedNothing

\* along the walk from block `given`: a form the first pass replaced (`first`
\* is another object than `given`) is in `second` equal to `first`
RECURSIVE ResolvedFormsStay(_, _, _)
ResolvedFormsStay(second, first, given) ==
    IF ~isRecord(heap, given) THEN TRUE
    ELSE IF Get(heap, given, "type") = Str("form")
    THEN first # given => Json(heap, second) = Json(heap, first)
    ELSE LET key == IF IsArray(heap, Get(heap, Get(heap, given, "config"), "children"))
                    THEN "children" ELSE "child"
             ss == ChildrenUnder(heap, second, key)
             fs == ChildrenUnder(heap, first, key)
             gs == ChildrenUnder(heap, given, key)
         IN  /\ Len(ss) = Len(gs) /\ Len(fs) = Len(gs)
             /\ \A i \in 1..Len(gs) : ResolvedFormsStay(ss[i], fs[i], gs[i])

\* C28, amended: a second pass with the same bucket changes nothing, a
\* second pass with any bucket changes nothing when the first left no
\* multivariate form in the tree, and a form the first pass resolved is the
\* same after a second pass with any bucket.  (A form the first pass returned as given because the selected id
\* was the id of no variant is resolved by a later pass whose bucket selects
\* an id that is one.)
C28_IdempotentPerBucket ==
    TwoPasses =>
        /\ ret.bucket = prev.bucket => SecondPassChangedNothing
        /\ (\A i \in 1..Len(SectionsBefore) :
                ~MultivariateFormIn(Json(heap, SectionsBefore[i]))) =>
              SecondPassChangedNothing
        /\ LET given == Elems(heap, prev.input)
           IN  /\ Len(SectionsAfter) = Len(given) /\ Len(SectionsBefore) = Len(given)
               /\ \A i \in 1..Len(given) :
                     LET ss == ChildrenUnder(heap, SectionsAfter[i], "children")
                         fs == ChildrenUnder(heap, SectionsBefore[i], "children")
                         gs == ChildrenUnder(heap, given[i], "children")
                     IN  isRecord(heap, given[i]) =>
                           /\ Len(ss) = Len(gs) /\ Len(fs) = Len(gs)
                           /\ \A j \in 1..Len(gs) : ResolvedFormsStay(ss[j], fs[j], gs[j])

\* the second of two forms was resolved by the first pass and stays, under
\* another bucket, as it is, while the tree is the same after a second pass
C28_Witness ==
    /\ TwoPasses /\ ret.bucket # prev.bucket
    /\ SecondPassChangedNothing
    /\ Len(SectionsBefore) = 1
    /\ Len(ChildrenUnder(heap, SectionsBefore[1], "children")) = 2
    /\ LET given == ChildrenUnder(heap, Elems(heap, prev.input)[1], "children")[2]
           first == ChildrenUnder(heap, SectionsBefore[1], "children")[2]
       IN  /\ IsMultivariateFormTerm(Json(heap, given))
           /\ Len(Elems(heap, Get(heap, Get(heap, given, "data"), "variants"))) = 2
           /\ first # given
           /\ ~IsMultivariateFormTerm(Json(heap, first))

---------------------------------------------------------------------------
(* Repeated calls of resolveBlogPostVariant *)

\* the last call was resolveBlogPostVariant on a record it had been called
\* on before
CalledAgain ==
    /\ ret.fn = "resolveBlogPostVariant"
    /\ prev.fn = "resolveBlogPostVariant"
    /\ ret.input = prev.input

\* C29: over a sequence of resolveBlogPostVariant calls on one content
\* record with any buckets, no call after the first changes the record, and
\* a call after one that returned is a no-op: the blocks chosen by the call
\* that resolved the record and all other fields stay as they are, whatever
\* the later bucket.
C29_ResolvedOnce ==
    CalledAgain =>
        /\ heap = pre
        /\ ~prev.out.thrown => ret.out = Return(Undefined)
        /\ ret.out.thrown => prev.out = ret.out

\* the record was resolved under bucket 0 to the blocks of variant "a"; the
\* call under bucket 3/4, which selects "b" of two equal weights, left them
C29_Witness ==
    /\ CalledAgain
    /\ prev.bucket = Zero /\ ret.bucket = Fin(3, 4)
    /\ ret.out = Return(Undefined)
    /\ DOMAIN OutputProps = {"layout", "blocks"}
    /\ \E a, b \in 1..Len(heap) :
          /\ ~heap[a].isArray /\ ~heap[b].isArray
          /\ DOMAIN heap[a].props = {"id", "weight", "blocks"}
          /\ DOMAIN heap[b].props = {"id", "weight", "blocks"}
          /\ heap[a].props["id"] = Str("a") /\ heap[b].props["id"] = Str("b")
          /\ heap[a].props["weight"] = heap[b].props["weight"]
          /\ OutputProps["blocks"] = heap[a].props["blocks"]
          /\ OutputProps["blocks"] # heap[b].props["blocks"]

---------------------------------------------------------------------------
(* Termination of the parent-chain walks *)

\* the last call was function fn and it returned a value
Returned(fn) == walk = Idle /\ ret.fn = fn /\ ~ret.out.thrown

\* C30: the parent-chain walks of the category helpers end on every finite
\* flat category list, a list whose parent_id links form a cycle or name
\* the category itself included: every getCategoryPath and every isAncestor
\* that has entered its loop returns, and every getDescendants returns.
C30_WalksTerminate ==
    /\ [](walk.fn = "getCategoryPath" => <>Returned("getCategoryPath"))
    /\ [](walk.fn = "isAncestor" => <>Returned("isAncestor"))
    /\ [](ret.fn = "getDescendants" => ~ret.out.thrown)

\* the walk is at a category a second time: in a list whose parent_id links
\* form a cycle, getCategoryPath is back in its loop with a path that holds
\* the same category twice
C30_Witness ==
    /\ walk.fn = "getCategoryPath"
    /\ walk.at = "while"
    /\ InCategoryMap(arg, walk.currentId)
    /\ \E i, j \in 1..Len(walk.path) : i < j /\ walk.path[i] = walk.path[j]

====
